---- MODULE Spec2Model ----
(***************************************************************************)
(* Task board of fridaynz: the tasks collection in Firestore, the          *)
(* in-memory mirror each signed-in client keeps of it (useAppData), and    *)
(* the asynchronous handlers of TaskBoard, TaskComments and SubTaskManager *)
(* that write to the collection and then update the mirror.                *)
(*                                                                         *)
(* Every handler is split at its awaits: a getDoc step reads the server    *)
(* document, an updateDoc step applies the write on the server, and the    *)
(* continuation after the write calls onTaskUpdate (useAppData.updateTask).*)
(* Snapshots deliver the whole collection as the server holds it.          *)
(***************************************************************************)
EXTENDS Integers, Sequences, FiniteSets, TLC

\* ---------------------------------------------------------------- bounds
MaxOps == 2          \* status changes started over a behaviour
MaxApprovalOps == 3  \* approve / reject submissions and progress repairs started
MaxCommentWrites == 4  \* comment writes started: two per submission, one per deletion
MaxSubtaskOps == 3   \* subtask edits started
MaxCloneOps == 4        \* subtask mutations and dialog effects of the reference model
MaxTextLen == 4      \* characters typed into the comment box
MaxRefreshOps == 3   \* refreshes and effect runs
MaxWaitOps == 4      \* calls of ensureAuthenticated and authentication changes
MaxNotifyOps == 1    \* notification calls
MaxRelayOps == 3     \* relay requests and profile edits
MaxDocOps == 3       \* calls of the document functions
MaxMemberOps == 3    \* writes to the users collection and local member edits
MaxRegisterOps == 3  \* calls of registerUser, loginUser and logoutUser
MaxAuthOps == 4      \* auth state changes and calls of loadUserProfile
MaxChatOps == 4      \* messaging operations started: a call of handleSendMessage
                     \* or handleClearMessages counts 1, a call of
                     \* handleCreateDirectMessage counts 2

\* the uuids a behaviour can draw: one per comment write, one per subtask
Uuids == 1..(MaxCommentWrites + MaxSubtaskOps)

\* ------------------------------------------------------------- constants
Users == {"u1", "u2"}            \* signed-in team members, one browser each
Statuses == <<"Todo", "In Progress", "Under Review", "Completed">>
StatusSet == {Statuses[i] : i \in 1..Len(Statuses)}
Texts == {"hello"}               \* comment texts a user may type
Titles == {"a", "b"}             \* subtask titles a user may type
DocId == "d1"                    \* id addDoc gives the document
FieldId == "f1"                  \* uuid TaskCreation stores in the id field
TaskIds == {DocId, FieldId, "d2"}  \* ids of the tasks handed to addTask and updateTask
Members == Users \cup {"u3"}     \* team members; u3 has no browser open
Nil == [id |-> <<"none", 0>>]    \* activeConversation === null
NoUser == "null"                 \* currentUser === null
NoData == [uid |-> "null"]       \* userData === null
Chars == {"@", "a", "b", " ", "."}    \* what can be typed: @, letters, blank, other
NameChars == {"a", "b", " "}           \* the class [a-zA-Z\s] of mentionRegex
Named == {[id |-> 1, name |-> <<"a">>],   \* teamMembers with their names
          [id |-> 2, name |-> <<"b">>]}
NoSub == [live |-> FALSE, handle |-> -1]  \* no listener registered
Waiters == {1, 2}                \* the calls of ensureAuthenticated
NotCalled ==                     \* a call that has not been made
    [promise |-> "none", listening |-> FALSE, due |-> FALSE, timer |-> "none",
     by |-> "none"]
Team == {[id |-> 1, userRole |-> "admin"],   \* the team members
         [id |-> 2, userRole |-> "manager"],
         [id |-> 3, userRole |-> "staff"]}
TeamIds == {m.id : m \in Team}
NotificationTypes == {"TASK_COMMENT", "TASK_MENTION"}
Mentions ==                      \* the optional mentionedUserIds argument
    {[given |-> FALSE, ids |-> {}]} \cup
    {[given |-> TRUE, ids |-> S] : S \in SUBSET TeamIds}
NoCall == [type |-> "none"]      \* no notification call yet
RelayIds == {1, 2}               \* user ids known to the relays
Undefined == 0                   \* a field absent from the request body
UserRoles == {"admin", "staff"}  \* values of the userRole field
Positions == {"admin", "Managing Partner", "Staff Member"}  \* the free-text role field
NoResponse == [status |-> 0]     \* no request answered yet
DocIds == {1, 2}                 \* ids passed to the document functions
Fns == {"addDocument", "getDocument", "updateDocument", "deleteDocument"}
NoResult == [outcome |-> "none"] \* no document function has returned yet
MemberIds == {1, 2}              \* ids of users documents, in the order of their names
Admin == 0                       \* the uid of the administrator's identity
NoIdentity == -1                 \* auth.currentUser === null
Kinds == {"users", "tasks"}      \* the collections AppDataProvider listens to
Callers == {"Navigation", "Dashboard"}   \* components that call loadUserProfile
Outcomes == {"data", "none", "error"}    \* getUserProfile: the profile, null, or
                                         \* the placeholder it returns on an error

VARIABLES
    serverTasks,   \* tasks collection: sequence of [docId, data]
    tasks,         \* tasks[u]: the mirror of useAppData in u's browser
    pending,       \* pending[u]: a snapshot for u is on its way
    op,            \* op[u]: the user handler in flight in u's browser
    fx,            \* fx[u]: the updateTasksProgress effect in flight
    nextId,        \* next value uuidv4() returns
    started,       \* operations started so far, counted against the bound
    submitted,     \* submitted[x]: comments with text x users have sent
    written,       \* the comments whose write reached the server
    removed,       \* ids of the comments a user asked to delete
    decided,       \* decided[u]: the decision of u's last write, or "none"
    last           \* the last notable mirror update: "deduped", "droppedComment",
                   \* "droppedApproval", or "none"

\* the conversations collection and the MessagingPanel of each browser
VARIABLES
    serverConvs,         \* conversations collection: sequence of documents
    conversations,       \* conversations[u]: the list MessagingPanel holds
    activeConversation,  \* activeConversation[u]: the open conversation, or Nil
    chatPending,         \* chatPending[u]: a conversations snapshot is on its way
    chat,                \* chat[u]: the messaging handler in flight (isSending)
    toast,               \* toast[u]: the notice the last handler of u has shown
    chatIds,             \* next document id / uuid of the messaging panel
    chatStarted,         \* messaging operations started so far
    sendCalls,           \* sendCalls[u]: calls of handleSendMessage with a text
    sendsAccepted,       \* sendsAccepted[u]: those calls that appended a message
    unsent               \* messages whose remote write failed: [by, conv, msg]

taskVars == <<serverTasks, tasks, pending, op, fx, nextId, started, submitted,
              written, removed, decided, last>>

chatVars == <<serverConvs, conversations, activeConversation, chatPending, chat,
              toast, chatIds, chatStarted, sendCalls, sendsAccepted, unsent>>

\* the session store (AuthProvider) of one browser and the components that
\* call loadUserProfile
VARIABLES
    currentUser,          \* state currentUser: a uid or NoUser
    userData,             \* state userData: a record or NoData
    profileLoading,       \* state profileLoading
    profileLoaded,        \* state profileLoaded
    profileError,         \* state profileError: "null" or a message
    profileLoadAttempts,  \* state profileLoadAttempts
    closure,              \* the state the functions of the last render closed over
    run,                  \* per calling component: its execution of loadUserProfile
    fetches,              \* history: calls of getUserProfile started
    failures,             \* history: profile fetches that failed in a row
    answered,             \* history: the last answer of getUserProfile and for whom
    authStarted           \* auth changes and loadUserProfile calls so far

authVars == <<currentUser, userData, profileLoading, profileLoaded, profileError,
              profileLoadAttempts, closure, run, fetches, failures, answered,
              authStarted>>

\* the two listener effects of AppDataProvider in that browser
VARIABLES
    listeners,            \* the listeners opened so far: [kind, user, live, due]
    effectUser,           \* per effect: the currentUser it last ran for
    shown                 \* per mirror: the listener whose snapshot it holds, 0 for []

subVars == <<listeners, effectUser, shown>>

\* Firebase Auth, the users collection and registerUser
VARIABLES
    authUsers,            \* the identities Firebase Auth holds
    profiles,             \* the ids that have a document in users
    authCurrent,          \* auth.currentUser: an identity or NoIdentity
    reg,                  \* registerUser: Idle or its position and locals
    nextUid,              \* the uid Firebase gives the next identity
    regStarted,           \* registrations, logins and logouts so far
    profileFailed,        \* history: identities whose createUserProfile failed
    deleteRejected        \* history: identities whose deleteUser call rejected

regVars == <<authUsers, profiles, authCurrent, reg, nextUid, regStarted,
             profileFailed, deleteRejected>>

\* the users collection and the teamMembers mirror of one browser
VARIABLES
    serverUsers,          \* the documents of users: a set of [id, active]
    teamMembers,          \* state teamMembers: a list of [id]
    dataLoading,          \* state dataLoading
    memLive,              \* the users listener is attached and has not failed
    memDue,               \* a snapshot of users is due to the listener
    memFailed,            \* history: the error callback of the listener ran
    memStarted            \* writes to users and local edits so far

memVars == <<serverUsers, teamMembers, dataLoading, memLive, memDue, memFailed,
             memStarted>>

\* the document functions of the firebase module and one collection
VARIABLES
    stored,                 \* the ids that have a document in the collection
    call,                   \* the document function running: Idle or its position
    result,                 \* what the last call returned or threw
    hasAttemptedReconnect,  \* the module variable of that name
    resets,                 \* history: runs of disableNetwork / enableNetwork begun
    docStarted              \* calls of document functions so far

docVars == <<stored, call, result, hasAttemptedReconnect, resets, docStarted>>

\* the account-deletion relay: the HTTP endpoint and the cloud function
VARIABLES
    userDocs,       \* users collection as the Admin SDK reads it: id -> profile
    accounts,       \* the ids that have an authentication account
    response,       \* the last response of a relay
    relayStarted    \* requests and profile edits so far

relayVars == <<userDocs, accounts, response, relayStarted>>

\* deleteUserAccount in one browser
VARIABLES
    deletion,       \* deleteUserAccount: Idle or its position and locals
    dataDeleted     \* the ids whose Firestore data a batch has deleted

accountVars == <<deletion, dataDeleted>>

\* the subtask objects of one task in one browser, by reference
VARIABLES
    heap,           \* the subtask objects made so far: heap[a] is the completed
                    \* field of the object with reference a
    mirrorList,     \* task.subtasks of the mirror record: a list of references
    writtenList,    \* updatedTask.subtasks of the last mutation
    localTaskList,  \* localTask.subtasks of TaskDetailDialog
    handedOut,      \* the references of the lists the mirror held before
    clonePc,        \* "idle", "updateDoc" during a mutation, then "done" or "failed"
    cloneStarted    \* mutations and dialog effects so far

cloneVars == <<heap, mirrorList, writtenList, localTaskList, handedOut, clonePc,
               cloneStarted>>

\* notifications and notification emails of task events
VARIABLES
    created,        \* the notifications and mails created, each with its actor
    lastNotify,     \* arguments of the last notification call
    notifyStarted   \* notification calls so far

notifyVars == <<created, lastNotify, notifyStarted>>

\* the calls of ensureAuthenticated
VARIABLES
    waits,          \* per call: its promise, listener and timer
    signedIn,       \* auth.currentUser is set
    waitStarted     \* calls and changes of the authentication state so far

waitVars == <<waits, signedIn, waitStarted>>

\* the connection handle and the provider's subscriptions
VARIABLES
    dbHandle,       \* which Firestore instance the module variable db holds
    subs,           \* per collection: the provider's listener and its instance
    refresh,        \* refreshConnection running: Idle or awaiting the reset
    refreshed,      \* what the last refreshConnection returned
    refreshStarted  \* refreshes and effect runs so far

refreshVars == <<dbHandle, subs, refresh, refreshed, refreshStarted>>

\* the comment box of TaskComments
VARIABLES
    newComment,      \* state newComment: the text typed, a sequence of characters
    storedMentions   \* the mentions list of the comment stored last

mentionVars == <<newComment, storedMentions>>

\* the variables the task board leaves alone
nonTaskVars == <<chatVars, authVars, subVars, regVars, memVars, docVars, relayVars, notifyVars, waitVars, refreshVars, mentionVars, accountVars, cloneVars>>

\* the variables the messaging panel leaves alone
nonChatVars == <<taskVars, authVars, subVars, regVars, memVars, docVars, relayVars, notifyVars, waitVars, refreshVars, mentionVars, accountVars, cloneVars>>

\* the variables the session store leaves alone
nonAuthVars == <<taskVars, chatVars, subVars, regVars, memVars, docVars, relayVars, notifyVars, waitVars, refreshVars, mentionVars, accountVars, cloneVars>>

\* the variables the listener effects leave alone
nonSubVars == <<taskVars, chatVars, authVars, regVars, memVars, docVars, relayVars, notifyVars, waitVars, refreshVars, mentionVars, accountVars, cloneVars>>

\* the variables registerUser leaves alone
nonRegVars == <<taskVars, chatVars, authVars, subVars, memVars, docVars, relayVars, notifyVars, waitVars, refreshVars, mentionVars, accountVars, cloneVars>>

\* the variables the teamMembers mirror leaves alone
nonMemVars == <<chatVars, authVars, subVars, regVars, docVars, relayVars, notifyVars, waitVars, refreshVars, mentionVars, accountVars, cloneVars>>

\* the variables the document functions leave alone
nonDocVars == <<taskVars, chatVars, authVars, subVars, regVars, memVars, relayVars, notifyVars, waitVars, refreshVars, mentionVars, accountVars, cloneVars>>

\* the variables the relays leave alone
nonRelayVars == <<taskVars, chatVars, authVars, subVars, regVars, memVars, docVars, notifyVars, waitVars, refreshVars, mentionVars, accountVars, cloneVars>>

\* the variables the notification functions leave alone
nonNotifyVars == <<taskVars, chatVars, authVars, subVars, regVars, memVars, docVars, relayVars, waitVars, refreshVars, mentionVars, accountVars, cloneVars>>

\* the variables ensureAuthenticated leaves alone
nonWaitVars == <<taskVars, chatVars, authVars, subVars, regVars, memVars, docVars, relayVars, notifyVars, refreshVars, mentionVars, accountVars, cloneVars>>

\* the variables a refresh leaves alone, hasAttemptedReconnect and resets apart
nonRefreshVars == <<taskVars, chatVars, authVars, subVars, regVars, memVars, relayVars, notifyVars, waitVars,
                    stored, call, result, docStarted, mentionVars, accountVars, cloneVars>>

\* the variables deleteUserAccount leaves alone, the relay's apart
nonAccountVars == <<taskVars, chatVars, authVars, subVars, regVars, memVars, docVars, notifyVars, waitVars, refreshVars, mentionVars, cloneVars>>

\* the variables the subtask objects leave alone
nonCloneVars == <<taskVars, chatVars, authVars, subVars, regVars, memVars, docVars, relayVars, notifyVars, waitVars, refreshVars, mentionVars, accountVars>>

\* the variables the comment box leaves alone
nonMentionVars == <<taskVars, chatVars, authVars, subVars, regVars, memVars, docVars, relayVars, notifyVars, waitVars, refreshVars, accountVars, cloneVars>>

vars == <<taskVars, chatVars, authVars, subVars, regVars, memVars, docVars, relayVars, notifyVars, waitVars, refreshVars, mentionVars, accountVars, cloneVars>>

Idle == [kind |-> "idle"]

\* ------------------------------------------------------ pure functions

\* the switch of handleStatusChange / updateTasksProgress
ProgressOf(status) ==
    CASE status = "Todo" -> 0
      [] status = "In Progress" -> 33
      [] status = "Under Review" -> 66
      [] status = "Completed" -> 100
      [] OTHER -> 0

\* `${c.id}-${c.content}`: ids are fixed-length uuids, so the string
\* determines the pair and the pair determines the string
CommentKey(c) == <<c.id, "-", c.content>>

SeqToSet(s) == {s[i] : i \in 1..Len(s)}

RECURSIVE FilterSeq(_, _)
\* Array.prototype.filter with the predicate "element is in keep"
FilterSeq(s, keep) ==
    IF s = <<>> THEN <<>>
    ELSE IF Head(s) \in keep THEN <<Head(s)>> \o FilterSeq(Tail(s), keep)
         ELSE FilterSeq(Tail(s), keep)

\* mutant: the incoming comments are appended without looking at their keys
MergeTask_appendAll(t, task) ==
    IF t.id = task.id
    THEN IF Len(task.comments) > 0 /\ Len(t.comments) > 0
         THEN [task EXCEPT !.comments = t.comments \o task.comments]
         ELSE task
    ELSE t

\* the body of prev.map(t => ...) in useAppData.updateTask
MergeTask(t, task) ==
    IF t.id = task.id
    THEN IF Len(task.comments) > 0 /\ Len(t.comments) > 0
         THEN LET existingCommentKeys == {CommentKey(c) : c \in SeqToSet(t.comments)}
                  uniqueComments == FilterSeq(task.comments,
                      {c \in SeqToSet(task.comments) : CommentKey(c) \notin existingCommentKeys})
              IN IF Len(uniqueComments) < Len(task.comments)
                 THEN [task EXCEPT !.comments = t.comments \o uniqueComments]
                 ELSE task
         ELSE task
    ELSE t

\* useAppData.updateTask: setTasks(prev => prev.map(...))
updateTask(prev, task) == [i \in 1..Len(prev) |-> MergeTask(prev[i], task)]

\* mutant: the task is appended without looking for its id
addTask_append(prev, task) == Append(prev, task)

\* useAppData.addTask: setTasks(prev => prev.some(t => t.id === task.id)
\* ? prev : [...prev, task])
addTask(prev, task) ==
    IF \E i \in 1..Len(prev) : prev[i].id = task.id THEN prev ELSE Append(prev, task)

\* the tasks onSnapshot handler: the mirror is rebuilt from the snapshot,
\* every record taking the document id as its id
loadedTasks(docs) ==
    [i \in 1..Len(docs) |-> [docs[i].data EXCEPT !.id = docs[i].docId]]

\* tasks.find(t => t.id === taskId) / the task a card is rendered from
HasTask(list, id) == \E i \in 1..Len(list) : list[i].id = id
FindTask(list, id) == list[CHOOSE i \in 1..Len(list) : list[i].id = id]

\* getDoc(doc(db, 'tasks', id)): exists() and data()
DocExists(id) == \E i \in 1..Len(serverTasks) : serverTasks[i].docId = id
DocData(id) == serverTasks[CHOOSE i \in 1..Len(serverTasks) : serverTasks[i].docId = id].data

\* updateDoc(taskRef, patch): the named fields of the stored document change
PatchDoc(docs, id, patch) ==
    [i \in 1..Len(docs) |->
        IF docs[i].docId = id
        THEN [docs[i] EXCEPT !.data =
                [f \in DOMAIN docs[i].data |->
                    IF f \in DOMAIN patch THEN patch[f] ELSE docs[i].data[f]]]
        ELSE docs[i]]

\* handleApprove / handleReject: findIndex by partnerId, replace or append
RECURSIVE findIndex(_, _, _)
findIndex(approvals, partnerId, i) ==
    IF i > Len(approvals) THEN -1
    ELSE IF approvals[i].partnerId = partnerId THEN i
         ELSE findIndex(approvals, partnerId, i + 1)

newApprovals(approvals, formattedApproval) ==
    LET existingApprovalIndex == findIndex(approvals, formattedApproval.partnerId, 1)
    IN IF existingApprovalIndex >= 0
       THEN [approvals EXCEPT ![existingApprovalIndex] = formattedApproval]
       ELSE Append(approvals, formattedApproval)

\* approvedCount >= teamMembers.length (teamMembers: the members mirror)
allApproved(approvals) ==
    Cardinality({i \in 1..Len(approvals) : approvals[i].approved}) >= Cardinality(Users)

\* the status handleApprove writes
approvedStatus(currentTask, approvals) ==
    IF allApproved(approvals) /\ currentTask.status = "Todo"
    THEN "In Progress" ELSE currentTask.status

\* updateTask found every incoming comment already in the mirror's record
Dedupes(prev, task) ==
    \E i \in 1..Len(prev) :
        /\ prev[i].id = task.id
        /\ Len(task.comments) > 0
        /\ \A c \in SeqToSet(task.comments) :
              CommentKey(c) \in {CommentKey(d) : d \in SeqToSet(prev[i].comments)}

\* the snapshot replaced a record that held a comment the server has not
DropsComment(prev, docs) ==
    \E i \in 1..Len(prev), j \in 1..Len(docs) :
        /\ prev[i].id = docs[j].docId
        /\ \E c \in SeqToSet(prev[i].comments) : c \notin SeqToSet(docs[j].data.comments)

\* the snapshot replaced a record that held an approval the server has not
DropsApproval(prev, docs) ==
    \E i \in 1..Len(prev), j \in 1..Len(docs) :
        /\ prev[i].id = docs[j].docId
        /\ \E a \in SeqToSet(prev[i].approvals) : a \notin SeqToSet(docs[j].data.approvals)

\* onTaskUpdate(task) as Dashboard wires it: useAppData.updateTask on the
\* mirror of u
onTaskUpdate(u, task) ==
    /\ tasks' = [tasks EXCEPT ![u] = updateTask(@, task)]
    /\ last' = IF Dedupes(tasks[u], task) THEN "deduped" ELSE last

AllPending == [u \in Users |-> TRUE]

\* ------------------------------------------------------------- initial
Init ==
    /\ serverTasks = <<>>
    /\ tasks = [u \in Users |-> <<>>]
    /\ pending = [u \in Users |-> FALSE]
    /\ op = [u \in Users |-> Idle]
    /\ fx = [u \in Users |-> Idle]
    /\ nextId = 1
    /\ started = 0
    /\ submitted = [x \in Texts |-> 0]
    /\ written = {}
    /\ removed = {}
    /\ decided = [u \in Users |-> "none"]
    /\ last = "none"
    /\ serverConvs = <<>>
    /\ conversations = [u \in Users |-> <<>>]
    /\ activeConversation = [u \in Users |-> Nil]
    /\ chatPending = [u \in Users |-> TRUE]
    /\ chat = [u \in Users |-> Idle]
    /\ toast = [u \in Users |-> "none"]
    /\ chatIds = 1
    /\ chatStarted = 0
    /\ sendCalls = [u \in Users |-> 0]
    /\ sendsAccepted = [u \in Users |-> 0]
    /\ unsent = {}
    /\ currentUser = NoUser
    /\ userData = NoData
    /\ profileLoading = FALSE
    /\ profileLoaded = FALSE
    /\ profileError = "null"
    /\ profileLoadAttempts = 0
    /\ closure = [currentUser |-> NoUser, profileLoading |-> FALSE,
                  profileLoadAttempts |-> 0]
    /\ run = [c \in Callers |-> Idle]
    /\ fetches = 0
    /\ failures = 0
    /\ answered = [uid |-> NoUser, outcome |-> "none"]
    /\ authStarted = 0
    /\ listeners = <<>>
    /\ effectUser = [k \in Kinds |-> NoUser]
    /\ shown = [k \in Kinds |-> 0]
    /\ authUsers = {Admin}
    /\ profiles = {Admin}
    /\ authCurrent = Admin
    /\ reg = Idle
    /\ nextUid = 1
    /\ regStarted = 0
    /\ profileFailed = {}
    /\ deleteRejected = {}
    /\ serverUsers = {}
    /\ teamMembers = <<>>
    /\ dataLoading = TRUE
    /\ memLive = TRUE
    /\ memDue = TRUE
    /\ memFailed = FALSE
    /\ memStarted = 0
    /\ stored = {}
    /\ call = Idle
    /\ result = NoResult
    /\ hasAttemptedReconnect = FALSE
    /\ resets = 0
    /\ docStarted = 0
    /\ userDocs = [id \in RelayIds |->
                     IF id = 1 THEN [userRole |-> "admin", role |-> "Managing Partner"]
                               ELSE [userRole |-> "staff", role |-> "Staff Member"]]
    /\ accounts = RelayIds
    /\ response = NoResponse
    /\ relayStarted = 0
    /\ deletion = Idle
    /\ dataDeleted = {}
    /\ heap = <<>>
    /\ mirrorList = <<>>
    /\ writtenList = <<>>
    /\ localTaskList = <<>>
    /\ handedOut = {}
    /\ clonePc = "idle"
    /\ cloneStarted = 0
    /\ created = {}
    /\ lastNotify = NoCall
    /\ notifyStarted = 0
    /\ waits = [c \in Waiters |-> NotCalled]
    /\ signedIn = FALSE
    /\ waitStarted = 0
    /\ dbHandle = 0
    /\ subs = [k \in Kinds |-> NoSub]
    /\ refresh = Idle
    /\ refreshed = "none"
    /\ refreshStarted = 0
    /\ newComment = <<>>
    /\ storedMentions = {}

\* ------------------------------------------------------------- actions

\* TaskCreation.handleCreateTask: addDoc of a Todo task with progress 0 and
\* empty lists; the mirror is not touched, the snapshot brings the task
handleCreateTask(u) ==
    /\ op[u] = Idle
    /\ serverTasks = <<>>
    /\ serverTasks' = <<[docId |-> DocId,
                         data |-> [id |-> FieldId, status |-> "Todo", progress |-> 0,
                                   approvals |-> <<>>, comments |-> <<>>,
                                   subtasks |-> <<>>]]>>
    /\ pending' = AllPending
    /\ UNCHANGED <<nonTaskVars, tasks, op, fx, nextId, started, submitted, written, removed, decided, last>>

\* the record of prev with the id of the document, or the document's own
\* lists when prev has none
PrevLists(prev, d) ==
    IF \E i \in 1..Len(prev) : prev[i].id = d.docId
    THEN prev[CHOOSE i \in 1..Len(prev) : prev[i].id = d.docId]
    ELSE d.data

\* mutant: the callback keeps the mirror's comments the snapshot lacks
onSnapshot_keepComments(u) ==
    /\ pending[u]
    /\ tasks' = [tasks EXCEPT ![u] =
                    [i \in 1..Len(serverTasks) |->
                        [loadedTasks(serverTasks)[i] EXCEPT !.comments =
                            @ \o FilterSeq(PrevLists(tasks[u], serverTasks[i]).comments,
                                     {c \in SeqToSet(PrevLists(tasks[u], serverTasks[i]).comments) :
                                         c \notin SeqToSet(serverTasks[i].data.comments)})]]]
    /\ pending' = [pending EXCEPT ![u] = FALSE]
    /\ last' = last
    /\ UNCHANGED <<nonTaskVars, serverTasks, op, fx, nextId, started, submitted, written, removed, decided>>

\* mutant: the callback keeps the mirror's approvals over the snapshot's
onSnapshot_keepApprovals(u) ==
    /\ pending[u]
    /\ tasks' = [tasks EXCEPT ![u] =
                    [i \in 1..Len(serverTasks) |->
                        [loadedTasks(serverTasks)[i] EXCEPT !.approvals =
                            PrevLists(tasks[u], serverTasks[i]).approvals]]]
    /\ pending' = [pending EXCEPT ![u] = FALSE]
    /\ last' = last
    /\ UNCHANGED <<nonTaskVars, serverTasks, op, fx, nextId, started, submitted, written, removed, decided>>

\* the tasks onSnapshot callback: setTasks(loadedTasks)
onSnapshot(u) ==
    /\ pending[u]
    /\ tasks' = [tasks EXCEPT ![u] = loadedTasks(serverTasks)]
    /\ pending' = [pending EXCEPT ![u] = FALSE]
    /\ last' = IF DropsComment(tasks[u], serverTasks) THEN "droppedComment"
               ELSE IF DropsApproval(tasks[u], serverTasks) THEN "droppedApproval"
               ELSE last
    /\ UNCHANGED <<nonTaskVars, serverTasks, op, fx, nextId, started, submitted, written, removed, decided>>

\* handleStatusChange up to its await: the card's task and the new status
handleStatusChange_begin(u, newStatus) ==
    /\ op[u] = Idle
    /\ started < MaxOps
    /\ HasTask(tasks[u], DocId)
    /\ op' = [op EXCEPT ![u] = [kind |-> "status", pc |-> "updateDoc",
                                task |-> FindTask(tasks[u], DocId),
                                newStatus |-> newStatus]]
    /\ started' = started + 1
    /\ UNCHANGED <<nonTaskVars, serverTasks, tasks, pending, fx, nextId, submitted, written, removed, decided, last>>

\* updateDoc(taskRef, {status, progress, updatedAt}) reaches the server
handleStatusChange_updateDoc(u) ==
    /\ op[u].kind = "status"
    /\ op[u].pc = "updateDoc"
    /\ DocExists(op[u].task.id)
    /\ serverTasks' = PatchDoc(serverTasks, op[u].task.id,
                               [status |-> op[u].newStatus,
                                progress |-> ProgressOf(op[u].newStatus)])
    /\ pending' = AllPending
    /\ op' = [op EXCEPT ![u].pc = "onTaskUpdate"]
    /\ UNCHANGED <<nonTaskVars, tasks, fx, nextId, started, submitted, written, removed, decided, last>>

\* mutant: the continuation passes the new status with the old progress
handleStatusChange_onTaskUpdate_oldProgress(u) ==
    /\ op[u].kind = "status"
    /\ op[u].pc = "onTaskUpdate"
    /\ onTaskUpdate(u, [op[u].task EXCEPT !.status = op[u].newStatus])
    /\ op' = [op EXCEPT ![u] = Idle]
    /\ UNCHANGED <<nonTaskVars, serverTasks, pending, fx, nextId, started, submitted, written, removed, decided>>

\* the continuation: onTaskUpdate({...task, status, progress})
handleStatusChange_onTaskUpdate(u) ==
    /\ op[u].kind = "status"
    /\ op[u].pc = "onTaskUpdate"
    /\ onTaskUpdate(u, [op[u].task EXCEPT
                                      !.status = op[u].newStatus,
                                      !.progress = ProgressOf(op[u].newStatus)])
    /\ op' = [op EXCEPT ![u] = Idle]
    /\ UNCHANGED <<nonTaskVars, serverTasks, pending, fx, nextId, started, submitted, written, removed, decided>>

\* ApprovalDialog.handleApprove / handleReject call onApprove / onReject with
\* the current user's decision; handleApprove / handleReject up to getDoc
handleApprove_begin(u) ==
    /\ op[u] = Idle
    /\ started < MaxApprovalOps
    /\ HasTask(tasks[u], DocId)
    /\ op' = [op EXCEPT ![u] = [kind |-> "approve", pc |-> "getDoc",
                                task |-> FindTask(tasks[u], DocId),
                                approval |-> [partnerId |-> u, approved |-> TRUE]]]
    /\ started' = started + 1
    /\ UNCHANGED <<nonTaskVars, serverTasks, tasks, pending, fx, nextId, submitted, written, removed, decided, last>>

handleReject_begin(u) ==
    /\ op[u] = Idle
    /\ started < MaxApprovalOps
    /\ HasTask(tasks[u], DocId)
    /\ op' = [op EXCEPT ![u] = [kind |-> "reject", pc |-> "getDoc",
                                task |-> FindTask(tasks[u], DocId),
                                approval |-> [partnerId |-> u, approved |-> FALSE]]]
    /\ started' = started + 1
    /\ UNCHANGED <<nonTaskVars, serverTasks, tasks, pending, fx, nextId, submitted, written, removed, decided, last>>

\* getDoc resolves: currentTask = taskDoc.data(), newApprovals computed
handleApproval_getDoc(u) ==
    /\ op[u].kind \in {"approve", "reject"}
    /\ op[u].pc = "getDoc"
    /\ DocExists(op[u].task.id)
    /\ LET currentTask == DocData(op[u].task.id)
       IN op' = [op EXCEPT ![u] =
                    [kind |-> op[u].kind, pc |-> "updateDoc", task |-> op[u].task,
                     currentTask |-> currentTask,
                     newApprovals |-> newApprovals(currentTask.approvals, op[u].approval)]]
    /\ UNCHANGED <<nonTaskVars, serverTasks, tasks, pending, fx, nextId, started, submitted, written, removed, decided, last>>

\* handleApprove: updateDoc(taskRef, {approvals, status, updatedAt})
handleApprove_updateDoc(u) ==
    /\ op[u].kind = "approve"
    /\ op[u].pc = "updateDoc"
    /\ DocExists(op[u].task.id)
    /\ serverTasks' = PatchDoc(serverTasks, op[u].task.id,
                               [approvals |-> op[u].newApprovals,
                                status |-> approvedStatus(op[u].currentTask, op[u].newApprovals)])
    /\ pending' = AllPending
    /\ op' = [op EXCEPT ![u].pc = "onTaskUpdate"]
    /\ decided' = [decided EXCEPT ![u] = "approved"]
    /\ UNCHANGED <<nonTaskVars, tasks, fx, nextId, started, submitted, written, removed, last>>

\* handleApprove: onTaskUpdate({...currentTask, approvals, status})
handleApprove_onTaskUpdate(u) ==
    /\ op[u].kind = "approve"
    /\ op[u].pc = "onTaskUpdate"
    /\ onTaskUpdate(u, [op[u].currentTask EXCEPT
                                      !.approvals = op[u].newApprovals,
                                      !.status = approvedStatus(op[u].currentTask,
                                                                op[u].newApprovals)])
    /\ op' = [op EXCEPT ![u] = Idle]
    /\ UNCHANGED <<nonTaskVars, serverTasks, pending, fx, nextId, started, submitted, written, removed, decided>>

\* handleReject: updateDoc(taskRef, {approvals, updatedAt})
handleReject_updateDoc(u) ==
    /\ op[u].kind = "reject"
    /\ op[u].pc = "updateDoc"
    /\ DocExists(op[u].task.id)
    /\ serverTasks' = PatchDoc(serverTasks, op[u].task.id,
                               [approvals |-> op[u].newApprovals])
    /\ pending' = AllPending
    /\ op' = [op EXCEPT ![u].pc = "onTaskUpdate"]
    /\ decided' = [decided EXCEPT ![u] = "rejected"]
    /\ UNCHANGED <<nonTaskVars, tasks, fx, nextId, started, submitted, written, removed, last>>

\* handleReject: onTaskUpdate({...currentTask, approvals})
handleReject_onTaskUpdate(u) ==
    /\ op[u].kind = "reject"
    /\ op[u].pc = "onTaskUpdate"
    /\ onTaskUpdate(u, [op[u].currentTask EXCEPT
                                      !.approvals = op[u].newApprovals])
    /\ op' = [op EXCEPT ![u] = Idle]
    /\ UNCHANGED <<nonTaskVars, serverTasks, pending, fx, nextId, started, submitted, written, removed, decided>>

\* the effect of TaskBoard on [tasks]: updateTasksProgress finds a task whose
\* progress differs from the value of its status
updateTasksProgress_begin(u) ==
    /\ fx[u] = Idle
    /\ started < MaxApprovalOps
    /\ \E i \in 1..Len(tasks[u]) :
          /\ tasks[u][i].progress # ProgressOf(tasks[u][i].status)
          /\ fx' = [fx EXCEPT ![u] = [kind |-> "progress", pc |-> "updateDoc",
                                      task |-> tasks[u][i]]]
    /\ started' = started + 1
    /\ UNCHANGED <<nonTaskVars, serverTasks, tasks, pending, op, nextId, submitted, written, removed, decided, last>>

\* updateDoc(taskRef, {progress: expectedProgress})
updateTasksProgress_updateDoc(u) ==
    /\ fx[u].kind = "progress"
    /\ fx[u].pc = "updateDoc"
    /\ DocExists(fx[u].task.id)
    /\ serverTasks' = PatchDoc(serverTasks, fx[u].task.id,
                               [progress |-> ProgressOf(fx[u].task.status)])
    /\ pending' = AllPending
    /\ fx' = [fx EXCEPT ![u].pc = "onTaskUpdate"]
    /\ UNCHANGED <<nonTaskVars, tasks, op, nextId, started, submitted, written, removed, decided, last>>

\* onTaskUpdate({...task, progress: expectedProgress})
updateTasksProgress_onTaskUpdate(u) ==
    /\ fx[u].kind = "progress"
    /\ fx[u].pc = "onTaskUpdate"
    /\ onTaskUpdate(u, [fx[u].task EXCEPT
                                      !.progress = ProgressOf(fx[u].task.status)])
    /\ fx' = [fx EXCEPT ![u] = Idle]
    /\ UNCHANGED <<nonTaskVars, serverTasks, pending, op, nextId, started, submitted, written, removed, decided>>

\* a getDoc or updateDoc of a handler rejects: its catch block reports the
\* error and the handler ends without touching the server or the mirror
handler_catch(u) ==
    /\ op[u] # Idle
    /\ op[u].pc \in {"getDoc", "updateDoc"}
    /\ op' = [op EXCEPT ![u] = Idle]
    /\ UNCHANGED <<nonTaskVars, serverTasks, tasks, pending, fx, nextId, started, submitted, written, removed, decided, last>>

\* the updateDoc of updateTasksProgress rejects: the error is logged
updateTasksProgress_catch(u) ==
    /\ fx[u] # Idle
    /\ fx[u].pc = "updateDoc"
    /\ fx' = [fx EXCEPT ![u] = Idle]
    /\ UNCHANGED <<nonTaskVars, serverTasks, tasks, pending, op, nextId, started, submitted, written, removed, decided, last>>

\* TaskComments.handleAddComment up to getDoc: a non-empty text, a signed-in
\* user and no submission in progress
TaskComments_handleAddComment_begin(u, text) ==
    /\ op[u] = Idle
    /\ started + 2 <= MaxCommentWrites
    /\ HasTask(tasks[u], DocId)
    /\ op' = [op EXCEPT ![u] = [kind |-> "TaskComments", pc |-> "getDoc",
                                taskId |-> DocId, newComment |-> text]]
    /\ started' = started + 2
    /\ submitted' = [submitted EXCEPT ![text] = @ + 1]
    /\ UNCHANGED <<nonTaskVars, serverTasks, tasks, pending, fx, nextId, written, removed, decided, last>>

\* getDoc resolves: taskData is read and the comment gets its uuid
TaskComments_handleAddComment_getDoc(u) ==
    /\ op[u].kind = "TaskComments"
    /\ op[u].pc = "getDoc"
    /\ DocExists(op[u].taskId)
    /\ op' = [op EXCEPT ![u] =
                 [kind |-> "TaskComments", pc |-> "updateDoc", taskId |-> op[u].taskId,
                  taskData |-> DocData(op[u].taskId),
                  comment |-> [id |-> nextId, userId |-> u, content |-> op[u].newComment]]]
    /\ nextId' = nextId + 1
    /\ UNCHANGED <<nonTaskVars, serverTasks, tasks, pending, fx, started, submitted, written, removed, decided, last>>

\* updateDoc(taskRef, {comments: [...taskData.comments, comment]})
TaskComments_handleAddComment_updateDoc(u) ==
    /\ op[u].kind = "TaskComments"
    /\ op[u].pc = "updateDoc"
    /\ DocExists(op[u].taskId)
    /\ serverTasks' = PatchDoc(serverTasks, op[u].taskId,
                               [comments |-> Append(op[u].taskData.comments, op[u].comment)])
    /\ pending' = AllPending
    /\ written' = written \cup {op[u].comment}
    /\ op' = [op EXCEPT ![u].pc = "onCommentAdded"]
    /\ UNCHANGED <<nonTaskVars, tasks, fx, nextId, started, submitted, removed, decided, last>>

\* the continuation of TaskComments.handleAddComment calls
\* onCommentAdded(taskId, comment.content), which TaskCard and
\* TaskDetailDialog pass on to TaskBoard.handleAddComment; that handler runs
\* up to its getDoc: it returns when the mirror has no such task
handleAddComment_begin(u) ==
    /\ op[u].kind = "TaskComments"
    /\ op[u].pc = "onCommentAdded"
    /\ op' = [op EXCEPT ![u] =
                 IF HasTask(tasks[u], op[u].taskId)
                 THEN [kind |-> "handleAddComment", pc |-> "getDoc",
                       task |-> FindTask(tasks[u], op[u].taskId),
                       commentText |-> op[u].comment.content]
                 ELSE Idle]
    /\ UNCHANGED <<nonTaskVars, serverTasks, tasks, pending, fx, nextId, started, submitted, written, removed, decided, last>>

\* TaskBoard.handleAddComment: getDoc resolves, newComment gets its own uuid;
\* a missing document ends the handler
handleAddComment_getDoc(u) ==
    /\ op[u].kind = "handleAddComment"
    /\ op[u].pc = "getDoc"
    /\ IF DocExists(op[u].task.id)
       THEN /\ op' = [op EXCEPT ![u] =
                        [kind |-> "handleAddComment", pc |-> "updateDoc",
                         task |-> op[u].task,
                         taskData |-> DocData(op[u].task.id),
                         newComment |-> [id |-> nextId, userId |-> u,
                                         content |-> op[u].commentText]]]
            /\ nextId' = nextId + 1
       ELSE /\ op' = [op EXCEPT ![u] = Idle]
            /\ nextId' = nextId
    /\ UNCHANGED <<nonTaskVars, serverTasks, tasks, pending, fx, started, submitted, written, removed, decided, last>>

\* TaskBoard.handleAddComment:
\* updateDoc(taskRef, {comments: [...taskData.comments, newComment]})
handleAddComment_updateDoc(u) ==
    /\ op[u].kind = "handleAddComment"
    /\ op[u].pc = "updateDoc"
    /\ DocExists(op[u].task.id)
    /\ serverTasks' = PatchDoc(serverTasks, op[u].task.id,
                               [comments |-> Append(op[u].taskData.comments, op[u].newComment)])
    /\ pending' = AllPending
    /\ written' = written \cup {op[u].newComment}
    /\ op' = [op EXCEPT ![u].pc = "onTaskUpdate"]
    /\ UNCHANGED <<nonTaskVars, tasks, fx, nextId, started, submitted, removed, decided, last>>

\* TaskBoard.handleAddComment:
\* onTaskUpdate({...task, comments: [...task.comments, newComment]})
handleAddComment_onTaskUpdate(u) ==
    /\ op[u].kind = "handleAddComment"
    /\ op[u].pc = "onTaskUpdate"
    /\ onTaskUpdate(u, [op[u].task EXCEPT
                                      !.comments = Append(@, op[u].newComment)])
    /\ op' = [op EXCEPT ![u] = Idle]
    /\ UNCHANGED <<nonTaskVars, serverTasks, pending, fx, nextId, started, submitted, written, removed, decided>>

\* comment.id !== commentId as a filter
withoutComment(comments, commentId) ==
    FilterSeq(comments, {c \in SeqToSet(comments) : c.id # commentId})

\* TaskBoard.handleDeleteComment up to getDoc: the comment is filtered out
\* of the mirror's task and onTaskUpdate is called before any remote call
handleDeleteComment_begin(u, commentId) ==
    /\ op[u] = Idle
    /\ started < MaxCommentWrites
    /\ HasTask(tasks[u], DocId)
    /\ \E c \in SeqToSet(FindTask(tasks[u], DocId).comments) : c.id = commentId
    /\ LET task == FindTask(tasks[u], DocId)
       IN /\ onTaskUpdate(u, [task EXCEPT
                                            !.comments = withoutComment(@, commentId)])
          /\ op' = [op EXCEPT ![u] = [kind |-> "handleDeleteComment", pc |-> "getDoc",
                                      task |-> task, commentId |-> commentId]]
    /\ started' = started + 1
    /\ removed' = removed \cup {commentId}
    /\ UNCHANGED <<nonTaskVars, serverTasks, pending, fx, nextId, submitted, written, decided>>

\* getDoc resolves; a missing document ends the handler
handleDeleteComment_getDoc(u) ==
    /\ op[u].kind = "handleDeleteComment"
    /\ op[u].pc = "getDoc"
    /\ op' = [op EXCEPT ![u] =
                 IF DocExists(op[u].task.id)
                 THEN [kind |-> "handleDeleteComment", pc |-> "updateDoc",
                       task |-> op[u].task, commentId |-> op[u].commentId,
                       taskData |-> DocData(op[u].task.id)]
                 ELSE Idle]
    /\ UNCHANGED <<nonTaskVars, serverTasks, tasks, pending, fx, nextId, started, submitted, written, removed, decided, last>>

\* updateDoc(taskRef, {comments: updatedComments}); the handler ends
handleDeleteComment_updateDoc(u) ==
    /\ op[u].kind = "handleDeleteComment"
    /\ op[u].pc = "updateDoc"
    /\ DocExists(op[u].task.id)
    /\ serverTasks' = PatchDoc(serverTasks, op[u].task.id,
                               [comments |-> withoutComment(op[u].taskData.comments,
                                                            op[u].commentId)])
    /\ pending' = AllPending
    /\ op' = [op EXCEPT ![u] = Idle]
    /\ UNCHANGED <<nonTaskVars, tasks, fx, nextId, started, submitted, written, removed, decided, last>>

\* the subtask lists the handlers of SubTaskManager compute from task.subtasks
toggledSubtasks(subtasks, subtaskId) ==
    [i \in 1..Len(subtasks) |->
        IF subtasks[i].id = subtaskId
        THEN [subtasks[i] EXCEPT !.completed = ~@]
        ELSE subtasks[i]]

renamedSubtasks(subtasks, subtaskId, title) ==
    [i \in 1..Len(subtasks) |->
        IF subtasks[i].id = subtaskId
        THEN [subtasks[i] EXCEPT !.title = title]
        ELSE subtasks[i]]

withoutSubtask(subtasks, subtaskId) ==
    FilterSeq(subtasks, {st \in SeqToSet(subtasks) : st.id # subtaskId})

HasSubtask(subtasks, subtaskId) == \E i \in 1..Len(subtasks) : subtasks[i].id = subtaskId

\* the call updateTaskInFirestore(updatedTask) every handler of
\* SubTaskManager ends with, up to its getDoc; the controls are disabled
\* while isLoading
updateTaskInFirestore_begin(u, task, updatedSubtasks, edit) ==
    /\ op[u] = Idle
    /\ started < MaxSubtaskOps
    /\ op' = [op EXCEPT ![u] = [kind |-> "SubTaskManager", pc |-> "getDoc",
                                task |-> task, subtasks |-> updatedSubtasks,
                                edit |-> edit]]
    /\ started' = started + 1
    /\ UNCHANGED <<nonTaskVars, serverTasks, tasks, pending, fx, submitted, written, removed, decided, last>>

\* handleAddSubtask: [...task.subtasks, newSubtask]
handleAddSubtask(u, title) ==
    /\ HasTask(tasks[u], DocId)
    /\ LET task == FindTask(tasks[u], DocId)
       IN updateTaskInFirestore_begin(u, task,
              Append(task.subtasks, [id |-> nextId, title |-> title, completed |-> FALSE]),
              [type |-> "add", id |-> nextId, title |-> title])
    /\ nextId' = nextId + 1

\* handleToggleSubtask: task.subtasks with completed negated for subtaskId
handleToggleSubtask(u, subtaskId) ==
    /\ HasTask(tasks[u], DocId)
    /\ LET task == FindTask(tasks[u], DocId)
       IN /\ HasSubtask(task.subtasks, subtaskId)
          /\ updateTaskInFirestore_begin(u, task, toggledSubtasks(task.subtasks, subtaskId),
                 [type |-> "toggle", id |-> subtaskId, title |-> ""])
    /\ nextId' = nextId

\* handleDeleteSubtask: task.subtasks without subtaskId
handleDeleteSubtask(u, subtaskId) ==
    /\ HasTask(tasks[u], DocId)
    /\ LET task == FindTask(tasks[u], DocId)
       IN /\ HasSubtask(task.subtasks, subtaskId)
          /\ updateTaskInFirestore_begin(u, task, withoutSubtask(task.subtasks, subtaskId),
                 [type |-> "delete", id |-> subtaskId, title |-> ""])
    /\ nextId' = nextId

\* saveEditedSubtask: task.subtasks with the edited title for editingSubtaskId
saveEditedSubtask(u, editingSubtaskId, title) ==
    /\ HasTask(tasks[u], DocId)
    /\ LET task == FindTask(tasks[u], DocId)
       IN /\ HasSubtask(task.subtasks, editingSubtaskId)
          /\ updateTaskInFirestore_begin(u, task,
                 renamedSubtasks(task.subtasks, editingSubtaskId, title),
                 [type |-> "rename", id |-> editingSubtaskId, title |-> title])
    /\ nextId' = nextId

\* updateTaskInFirestore: getDoc resolves, currentData is read
updateTaskInFirestore_getDoc(u) ==
    /\ op[u].kind = "SubTaskManager"
    /\ op[u].pc = "getDoc"
    /\ DocExists(op[u].task.id)
    /\ op' = [op EXCEPT ![u] =
                 [kind |-> "SubTaskManager", pc |-> "updateDoc", task |-> op[u].task,
                  subtasks |-> op[u].subtasks, edit |-> op[u].edit,
                  currentData |-> DocData(op[u].task.id)]]
    /\ UNCHANGED <<nonTaskVars, serverTasks, tasks, pending, fx, nextId, started, submitted, written, removed, decided, last>>

\* updateTaskInFirestore: updateDoc(taskRef, {subtasks: updatedTask.subtasks})
updateTaskInFirestore_updateDoc(u) ==
    /\ op[u].kind = "SubTaskManager"
    /\ op[u].pc = "updateDoc"
    /\ DocExists(op[u].task.id)
    /\ serverTasks' = PatchDoc(serverTasks, op[u].task.id, [subtasks |-> op[u].subtasks])
    /\ pending' = AllPending
    /\ op' = [op EXCEPT ![u].pc = "onUpdate"]
    /\ UNCHANGED <<nonTaskVars, tasks, fx, nextId, started, submitted, written, removed, decided, last>>

\* updateTaskInFirestore: onUpdate({...task, subtasks: <deep clone>}), which
\* TaskDetailDialog.handleSubtaskUpdate passes on to onTaskUpdate
updateTaskInFirestore_onUpdate(u) ==
    /\ op[u].kind = "SubTaskManager"
    /\ op[u].pc = "onUpdate"
    /\ onTaskUpdate(u, [op[u].task EXCEPT !.subtasks = op[u].subtasks])
    /\ op' = [op EXCEPT ![u] = Idle]
    /\ UNCHANGED <<nonTaskVars, serverTasks, pending, fx, nextId, started, submitted, written, removed, decided>>

\* ------------------------------------------------------ messaging panel

\* the orders conversationData.sort(...) by lastMessageAt can leave a list
\* in; the model does not carry the timestamps, so any order
Orders(list) ==
    {[i \in 1..Len(list) |-> list[p[i]]] :
        p \in {q \in [1..Len(list) -> 1..Len(list)] :
                  \A i, j \in 1..Len(list) : q[i] = q[j] => i = j}}

\* the query where("participants", "array-contains", currentUserId), each
\* document taking its document id as id
conversationData(u) ==
    FilterSeq(serverConvs, {d \in SeqToSet(serverConvs) : u \in SeqToSet(d.participants)})

HasConv(list, id) == \E i \in 1..Len(list) : list[i].id = id
FindConv(list, id) == list[CHOOSE i \in 1..Len(list) : list[i].id = id]

\* the browsers whose query result a write to the document changes
Notified(participants) == [v \in Users |-> chatPending[v] \/ v \in SeqToSet(participants)]

\* the effect of MessagingPanel depends on activeConversation?.id: when the
\* id changes the listener is re-established and delivers a snapshot
Resubscribed(u, id) == [chatPending EXCEPT ![u] = @ \/ id # activeConversation[u].id]

\* prev.map(conv => conv.id === id ? updatedConversation : conv)
ReplaceConv(list, id, updatedConversation) ==
    [i \in 1..Len(list) |-> IF list[i].id = id THEN updatedConversation ELSE list[i]]

\* the onSnapshot callback of loadConversations
loadConversations_onSnapshot(u) ==
    /\ chatPending[u]
    /\ \E sorted \in (IF activeConversation[u] = Nil
                      THEN Orders(conversationData(u))
                      ELSE {conversationData(u)}) :
          /\ conversations' = [conversations EXCEPT ![u] = sorted]
          /\ LET next == IF activeConversation[u] # Nil
                         THEN IF HasConv(sorted, activeConversation[u].id)
                              THEN FindConv(sorted, activeConversation[u].id)
                              ELSE activeConversation[u]
                         ELSE IF Len(sorted) > 0 THEN sorted[1] ELSE Nil
             IN /\ activeConversation' = [activeConversation EXCEPT ![u] = next]
                /\ chatPending' = [chatPending EXCEPT ![u] = next.id # activeConversation[u].id]
    /\ UNCHANGED <<nonChatVars, serverConvs, chat, toast, chatIds, chatStarted,
                   sendCalls, sendsAccepted, unsent>>

\* the conversation list: onClick={() => setActiveConversation(conversation)}
selectConversation(u, i) ==
    /\ i \in 1..Len(conversations[u])
    /\ conversations[u][i] # activeConversation[u]
    /\ activeConversation' = [activeConversation EXCEPT ![u] = conversations[u][i]]
    /\ chatPending' = Resubscribed(u, conversations[u][i].id)
    /\ UNCHANGED <<nonChatVars, serverConvs, conversations, chat, toast, chatIds,
                   chatStarted, sendCalls, sendsAccepted, unsent>>

\* mutant: the handler does not look at isSending
handleSendMessage_noGuard(u, text) ==
    /\ activeConversation[u] # Nil
    /\ chatStarted < MaxChatOps
    /\ LET messageData == [id |-> chatIds, senderId |-> u, content |-> text]
           updatedConversation == [activeConversation[u] EXCEPT
                                      !.messages = Append(@, messageData)]
       IN /\ activeConversation' = [activeConversation EXCEPT ![u] = updatedConversation]
          /\ conversations' = [conversations EXCEPT ![u] =
                ReplaceConv(@, activeConversation[u].id, updatedConversation)]
          /\ chat' = [chat EXCEPT ![u] = [kind |-> "send", pc |-> "getDoc",
                                          conv |-> activeConversation[u].id,
                                          messageData |-> messageData]]
    /\ toast' = [toast EXCEPT ![u] = "none"]
    /\ chatIds' = chatIds + 1
    /\ chatStarted' = chatStarted + 1
    /\ sendCalls' = [sendCalls EXCEPT ![u] = @ + 1]
    /\ sendsAccepted' = [sendsAccepted EXCEPT ![u] = @ + 1]
    /\ UNCHANGED <<nonChatVars, serverConvs, chatPending, unsent>>

\* handleSendMessage up to its first await, called with a text in the input
\* and a conversation open: it returns while isSending; otherwise the
\* message is appended to the open conversation and to its entry in the list
handleSendMessage(u, text) ==
    /\ activeConversation[u] # Nil
    /\ chatStarted < MaxChatOps
    /\ chatStarted' = chatStarted + 1
    /\ sendCalls' = [sendCalls EXCEPT ![u] = @ + 1]
    /\ IF chat[u] # Idle
       THEN UNCHANGED <<activeConversation, conversations, chat, toast, chatIds,
                        sendsAccepted>>
       ELSE /\ LET messageData == [id |-> chatIds, senderId |-> u, content |-> text]
                   updatedConversation == [activeConversation[u] EXCEPT
                                              !.messages = Append(@, messageData)]
               IN /\ activeConversation' =
                        [activeConversation EXCEPT ![u] = updatedConversation]
                  /\ conversations' = [conversations EXCEPT ![u] =
                        ReplaceConv(@, activeConversation[u].id, updatedConversation)]
                  /\ chat' = [chat EXCEPT ![u] = [kind |-> "send", pc |-> "getDoc",
                                                  conv |-> activeConversation[u].id,
                                                  messageData |-> messageData]]
            /\ toast' = [toast EXCEPT ![u] = "none"]
            /\ chatIds' = chatIds + 1
            /\ sendsAccepted' = [sendsAccepted EXCEPT ![u] = @ + 1]
    /\ UNCHANGED <<nonChatVars, serverConvs, chatPending, unsent>>

\* getDoc resolves: conversationData is read; a missing document throws into
\* the inner catch, which only logs
handleSendMessage_getDoc(u) ==
    /\ chat[u].kind = "send"
    /\ chat[u].pc = "getDoc"
    /\ IF HasConv(serverConvs, chat[u].conv)
       THEN /\ chat' = [chat EXCEPT ![u] =
                        [kind |-> "send", pc |-> "updateDoc", conv |-> chat[u].conv,
                         messageData |-> chat[u].messageData,
                         conversationData |-> FindConv(serverConvs, chat[u].conv)]]
            /\ unsent' = unsent
       ELSE /\ chat' = [chat EXCEPT ![u] = Idle]
            /\ unsent' = unsent \cup {[by |-> u, conv |-> chat[u].conv,
                                       msg |-> chat[u].messageData]}
    /\ UNCHANGED <<nonChatVars, serverConvs, conversations, activeConversation,
                   chatPending, toast, chatIds, chatStarted, sendCalls, sendsAccepted>>

\* updateDoc(conversationRef, {messages: [...conversationData.messages, messageData]})
handleSendMessage_updateDoc(u) ==
    /\ chat[u].kind = "send"
    /\ chat[u].pc = "updateDoc"
    /\ HasConv(serverConvs, chat[u].conv)
    /\ serverConvs' = ReplaceConv(serverConvs, chat[u].conv,
           [FindConv(serverConvs, chat[u].conv) EXCEPT
               !.messages = Append(chat[u].conversationData.messages, chat[u].messageData)])
    /\ chatPending' = Notified(chat[u].conversationData.participants)
    /\ chat' = [chat EXCEPT ![u].pc = "finally"]
    /\ UNCHANGED <<nonChatVars, conversations, activeConversation, toast, chatIds,
                   chatStarted, sendCalls, sendsAccepted, unsent>>

\* the write is acknowledged: finally { setIsSending(false) }
handleSendMessage_finally(u) ==
    /\ chat[u].kind = "send"
    /\ chat[u].pc = "finally"
    /\ chat' = [chat EXCEPT ![u] = Idle]
    /\ UNCHANGED <<nonChatVars, serverConvs, conversations, activeConversation,
                   chatPending, toast, chatIds, chatStarted, sendCalls, sendsAccepted,
                   unsent>>

\* getDoc or updateDoc rejects: the inner catch logs the error and the
\* handler ends; no toast is shown
handleSendMessage_catch(u) ==
    /\ chat[u].kind = "send"
    /\ chat[u].pc \in {"getDoc", "updateDoc"}
    /\ chat' = [chat EXCEPT ![u] = Idle]
    /\ unsent' = unsent \cup {[by |-> u, conv |-> chat[u].conv, msg |-> chat[u].messageData]}
    /\ UNCHANGED <<nonChatVars, serverConvs, conversations, activeConversation,
                   chatPending, toast, chatIds, chatStarted, sendCalls, sendsAccepted>>

\* the back button: setActiveConversation(null)
closeConversation(u) ==
    /\ activeConversation[u] # Nil
    /\ activeConversation' = [activeConversation EXCEPT ![u] = Nil]
    /\ chatPending' = Resubscribed(u, Nil.id)
    /\ UNCHANGED <<nonChatVars, serverConvs, conversations, chat, toast, chatIds,
                   chatStarted, sendCalls, sendsAccepted, unsent>>

\* conversations.find(conv => !conv.isGroup && conv.participants.includes(a)
\*                            && conv.participants.includes(b))
IsDirect(conv, a, b) ==
    /\ ~conv.isGroup
    /\ a \in SeqToSet(conv.participants)
    /\ b \in SeqToSet(conv.participants)

findExisting(list, a, b) ==
    list[CHOOSE i \in 1..Len(list) :
            /\ IsDirect(list[i], a, b)
            /\ \A j \in 1..(i - 1) : ~IsDirect(list[j], a, b)]

\* handleCreateDirectMessage up to its await: a conversation with the
\* recipient found in the local list is opened, otherwise one is created
handleCreateDirectMessage(u, recipientId) ==
    /\ recipientId # u
    /\ chat[u] = Idle
    /\ chatStarted + 2 <= MaxChatOps
    /\ chatStarted' = chatStarted + 2
    /\ toast' = [toast EXCEPT ![u] = "none"]
    /\ IF \E i \in 1..Len(conversations[u]) : IsDirect(conversations[u][i], u, recipientId)
       THEN /\ activeConversation' = [activeConversation EXCEPT ![u] =
                                         findExisting(conversations[u], u, recipientId)]
            /\ chatPending' =
                  Resubscribed(u, findExisting(conversations[u], u, recipientId).id)
            /\ chat' = chat
       ELSE /\ chat' = [chat EXCEPT ![u] = [kind |-> "direct", pc |-> "addDoc",
                                            recipientId |-> recipientId]]
            /\ UNCHANGED <<activeConversation, chatPending>>
    /\ UNCHANGED <<nonChatVars, serverConvs, conversations, chatIds, sendCalls,
                   sendsAccepted, unsent>>

\* addDoc(collection(db, "conversations"), conversationData)
handleCreateDirectMessage_addDoc(u) ==
    /\ chat[u].kind = "direct"
    /\ chat[u].pc = "addDoc"
    /\ serverConvs' = Append(serverConvs,
           [id |-> <<"doc", chatIds>>, participants |-> <<u, chat[u].recipientId>>,
            isGroup |-> FALSE, messages |-> <<>>])
    /\ chatIds' = chatIds + 1
    /\ chatPending' = Notified(<<u, chat[u].recipientId>>)
    /\ chat' = [chat EXCEPT ![u] = [kind |-> "direct", pc |-> "continue",
                                    recipientId |-> chat[u].recipientId,
                                    docRef |-> <<"doc", chatIds>>]]
    /\ UNCHANGED <<nonChatVars, conversations, activeConversation, toast, chatStarted,
                   sendCalls, sendsAccepted, unsent>>

\* addDoc resolves: the new conversation is put in front of the local list
\* and opened; toast "Conversation Started"
handleCreateDirectMessage_continue(u) ==
    /\ chat[u].kind = "direct"
    /\ chat[u].pc = "continue"
    /\ LET newConversation == [id |-> chat[u].docRef,
                               participants |-> <<u, chat[u].recipientId>>,
                               isGroup |-> FALSE, messages |-> <<>>]
       IN /\ conversations' = [conversations EXCEPT ![u] = <<newConversation>> \o @]
          /\ activeConversation' = [activeConversation EXCEPT ![u] = newConversation]
          /\ chatPending' = Resubscribed(u, newConversation.id)
    /\ toast' = [toast EXCEPT ![u] = "ack"]
    /\ chat' = [chat EXCEPT ![u] = Idle]
    /\ UNCHANGED <<nonChatVars, serverConvs, chatIds, chatStarted, sendCalls,
                   sendsAccepted, unsent>>

\* addDoc rejects: a conversation with a temp- id is kept locally and
\* opened; toast "Conversation Started Locally"
handleCreateDirectMessage_catch(u) ==
    /\ chat[u].kind = "direct"
    /\ chat[u].pc = "addDoc"
    /\ LET tempConversation == [id |-> <<"temp", chatIds>>,
                                participants |-> <<u, chat[u].recipientId>>,
                                isGroup |-> FALSE, messages |-> <<>>]
       IN /\ conversations' = [conversations EXCEPT ![u] = <<tempConversation>> \o @]
          /\ activeConversation' = [activeConversation EXCEPT ![u] = tempConversation]
          /\ chatPending' = Resubscribed(u, tempConversation.id)
    /\ chatIds' = chatIds + 1
    /\ toast' = [toast EXCEPT ![u] = "ack"]
    /\ chat' = [chat EXCEPT ![u] = Idle]
    /\ UNCHANGED <<nonChatVars, serverConvs, chatStarted, sendCalls, sendsAccepted,
                   unsent>>

\* handleClearMessages up to its await
handleClearMessages(u) ==
    /\ activeConversation[u] # Nil
    /\ chat[u] = Idle
    /\ chatStarted < MaxChatOps
    /\ chatStarted' = chatStarted + 1
    /\ toast' = [toast EXCEPT ![u] = "none"]
    /\ chat' = [chat EXCEPT ![u] = [kind |-> "clear", pc |-> "updateDoc",
                                    activeConversation |-> activeConversation[u]]]
    /\ UNCHANGED <<nonChatVars, serverConvs, conversations, activeConversation,
                   chatPending, chatIds, sendCalls, sendsAccepted, unsent>>

\* updateDoc(conversationRef, {messages: []})
handleClearMessages_updateDoc(u) ==
    /\ chat[u].kind = "clear"
    /\ chat[u].pc = "updateDoc"
    /\ HasConv(serverConvs, chat[u].activeConversation.id)
    /\ serverConvs' = ReplaceConv(serverConvs, chat[u].activeConversation.id,
           [FindConv(serverConvs, chat[u].activeConversation.id) EXCEPT
               !.messages = <<>>])
    /\ chatPending' = Notified(chat[u].activeConversation.participants)
    /\ unsent' = {m \in unsent : m.conv # chat[u].activeConversation.id}
    /\ chat' = [chat EXCEPT ![u].pc = "continue"]
    /\ UNCHANGED <<nonChatVars, conversations, activeConversation, toast, chatIds,
                   chatStarted, sendCalls, sendsAccepted>>

\* updateDoc resolves: the local copies are emptied; toast "Messages Cleared"
handleClearMessages_continue(u) ==
    /\ chat[u].kind = "clear"
    /\ chat[u].pc = "continue"
    /\ LET updatedConversation == [chat[u].activeConversation EXCEPT !.messages = <<>>]
       IN /\ activeConversation' = [activeConversation EXCEPT ![u] = updatedConversation]
          /\ conversations' = [conversations EXCEPT ![u] =
                ReplaceConv(@, updatedConversation.id, updatedConversation)]
          /\ chatPending' = Resubscribed(u, updatedConversation.id)
    /\ toast' = [toast EXCEPT ![u] = "ack"]
    /\ chat' = [chat EXCEPT ![u] = Idle]
    /\ UNCHANGED <<nonChatVars, serverConvs, chatIds, chatStarted, sendCalls,
                   sendsAccepted, unsent>>

\* updateDoc rejects: toast "Failed to clear messages"
handleClearMessages_catch(u) ==
    /\ chat[u].kind = "clear"
    /\ chat[u].pc = "updateDoc"
    /\ toast' = [toast EXCEPT ![u] = "error"]
    /\ chat' = [chat EXCEPT ![u] = Idle]
    /\ UNCHANGED <<nonChatVars, serverConvs, conversations, activeConversation,
                   chatPending, chatIds, chatStarted, sendCalls, sendsAccepted, unsent>>

\* -------------------------------------------------------- session store

\* { uid, email, displayName, photoURL } of the auth user
BasicData(uid) == [uid |-> uid, profileOf |-> "null", error |-> FALSE]

\* setUserData(prev => ({ ...prev, ...profile }))
MergeProfile(prev, uid, outcome) ==
    IF outcome = "data"
    THEN [uid |-> prev.uid, profileOf |-> uid,
          error |-> IF prev = NoData THEN FALSE ELSE prev.error]
    ELSE IF outcome = "error"
    THEN [uid |-> prev.uid,
          profileOf |-> IF prev = NoData THEN "null" ELSE prev.profileOf,
          error |-> TRUE]
    ELSE prev

\* the callback of onAuthStateChanged, and the render of AuthProvider that
\* follows it
onAuthStateChanged(user) ==
    /\ user # currentUser
    /\ authStarted < MaxAuthOps
    /\ authStarted' = authStarted + 1
    /\ currentUser' = user
    /\ IF user = NoUser
       THEN /\ userData' = NoData
            /\ profileLoaded' = FALSE
            /\ profileLoadAttempts' = 0
            /\ profileError' = "null"
       ELSE /\ userData' = BasicData(user)
            /\ UNCHANGED <<profileLoaded, profileLoadAttempts, profileError>>
    /\ closure' = [currentUser |-> user, profileLoading |-> profileLoading,
                   profileLoadAttempts |-> profileLoadAttempts']
    /\ failures' = 0
    /\ UNCHANGED <<nonAuthVars, profileLoading, run, fetches, answered>>

\* AuthProvider renders after the effects of the last commit have called
\* loadUserProfile: the function handed to the components from now on
\* closes over the state they left
render ==
    /\ closure # [currentUser |-> currentUser, profileLoading |-> profileLoading,
                  profileLoadAttempts |-> profileLoadAttempts]
    /\ closure' = [currentUser |-> currentUser, profileLoading |-> profileLoading,
                   profileLoadAttempts |-> profileLoadAttempts]
    /\ UNCHANGED <<nonAuthVars, currentUser, userData, profileLoading, profileLoaded,
                   profileError, profileLoadAttempts, run, fetches, failures, answered,
                   authStarted>>

\* component c calls loadUserProfile, from its effect or from a click: the
\* guard reads the state of the render the function comes from, which the
\* effects of one commit share; the handler runs up to its await, or to
\* its end when it does not fetch
loadUserProfile(c) ==
    /\ run[c] = Idle
    /\ authStarted < MaxAuthOps
    /\ closure.currentUser # NoUser
    /\ ~closure.profileLoading
    /\ ~(closure.profileLoadAttempts > 2)
    /\ authStarted' = authStarted + 1
    /\ profileError' = "null"
    /\ userData' = BasicData(closure.currentUser)
    /\ IF closure.profileLoadAttempts < 2
       THEN /\ profileLoading' = TRUE
            /\ run' = [run EXCEPT ![c] = [kind |-> "load", uid |-> closure.currentUser]]
            /\ fetches' = fetches + 1
            /\ UNCHANGED profileLoaded
       ELSE /\ profileLoading' = FALSE
            /\ profileLoaded' = TRUE
            /\ UNCHANGED <<run, fetches>>
    /\ UNCHANGED <<nonAuthVars, currentUser, profileLoadAttempts, closure, failures,
                   answered>>

\* getUserProfile resolves (it catches its own errors and returns a
\* placeholder carrying an error field); the handler runs to its end and
\* AuthProvider renders
loadUserProfile_continue(c, outcome) ==
    /\ run[c] # Idle
    /\ userData' = MergeProfile(userData, run[c].uid, outcome)
    /\ profileLoaded' = TRUE
    /\ profileLoading' = FALSE
    /\ run' = [run EXCEPT ![c] = Idle]
    /\ failures' = IF outcome = "error" THEN failures + 1 ELSE 0
    /\ answered' = [uid |-> run[c].uid, outcome |-> outcome]
    /\ closure' = [currentUser |-> currentUser, profileLoading |-> FALSE,
                   profileLoadAttempts |-> profileLoadAttempts]
    /\ UNCHANGED <<nonAuthVars, currentUser, profileError, profileLoadAttempts,
                   fetches, authStarted>>

\* ------------------------------------------------------ listener effects

\* return () => unsubscribe(): the listener the effect of kind k opened on
\* its last run is detached and the snapshot it was due is dropped
Unsubscribed(k) ==
    [i \in 1..Len(listeners) |->
        IF listeners[i].kind = k
        THEN [listeners[i] EXCEPT !.live = FALSE, !.due = FALSE]
        ELSE listeners[i]]

\* mutant: the effect returns no cleanup, the previous listener stays attached
effect_noCleanup(k) ==
    /\ effectUser[k] # currentUser
    /\ effectUser' = [effectUser EXCEPT ![k] = currentUser]
    /\ IF currentUser = NoUser
       THEN /\ listeners' = listeners
            /\ shown' = [shown EXCEPT ![k] = 0]
       ELSE /\ listeners' = Append(listeners,
                   [kind |-> k, user |-> currentUser, live |-> TRUE, due |-> TRUE])
            /\ shown' = shown
    /\ UNCHANGED nonSubVars

\* currentUser changed and AppDataProvider rendered: the cleanup of the
\* effect's previous run is called, then the effect runs again: it empties
\* the mirror when nobody is signed in, otherwise it opens a listener
effect(k) ==
    /\ effectUser[k] # currentUser
    /\ effectUser' = [effectUser EXCEPT ![k] = currentUser]
    /\ IF currentUser = NoUser
       THEN /\ listeners' = Unsubscribed(k)
            /\ shown' = [shown EXCEPT ![k] = 0]
       ELSE /\ listeners' = Append(Unsubscribed(k),
                   [kind |-> k, user |-> currentUser, live |-> TRUE, due |-> TRUE])
            /\ shown' = shown
    /\ UNCHANGED nonSubVars

\* the snapshot callback of listener i: setTeamMembers / setTasks; a
\* detached listener is not called
listener_onSnapshot(i) ==
    /\ i \in 1..Len(listeners)
    /\ listeners[i].live
    /\ listeners[i].due
    /\ listeners' = [listeners EXCEPT ![i].due = FALSE]
    /\ shown' = [shown EXCEPT ![listeners[i].kind] = i]
    /\ UNCHANGED <<nonSubVars, effectUser>>

\* a document of collection k is written: every attached listener of the
\* collection is due a snapshot
collectionChanged(k) ==
    /\ \E i \in 1..Len(listeners) :
          listeners[i].kind = k /\ listeners[i].live /\ ~listeners[i].due
    /\ listeners' = [i \in 1..Len(listeners) |->
          IF listeners[i].kind = k /\ listeners[i].live
          THEN [listeners[i] EXCEPT !.due = TRUE] ELSE listeners[i]]
    /\ UNCHANGED <<nonSubVars, effectUser, shown>>

\* ---------------------------------------------------------- registration

\* logoutUser: signOut(auth), also while a registration is awaiting
logoutUser ==
    /\ authCurrent # NoIdentity
    /\ regStarted < MaxRegisterOps
    /\ regStarted' = regStarted + 1
    /\ authCurrent' = NoIdentity
    /\ UNCHANGED <<nonRegVars, authUsers, profiles, reg, nextUid, profileFailed,
                   deleteRejected>>

\* loginUser: the administrator signs in
loginUser ==
    /\ authCurrent = NoIdentity
    /\ reg = Idle
    /\ Admin \in authUsers
    /\ regStarted < MaxRegisterOps
    /\ regStarted' = regStarted + 1
    /\ authCurrent' = Admin
    /\ UNCHANGED <<nonRegVars, authUsers, profiles, reg, nextUid, profileFailed,
                   deleteRejected>>

\* registerUser up to createUserWithEmailAndPassword: initialUser is taken
\* from auth.currentUser (getUserProfile has no effect and does not throw)
registerUser ==
    /\ reg = Idle
    /\ regStarted < MaxRegisterOps
    /\ regStarted' = regStarted + 1
    /\ reg' = [kind |-> "register", pc |-> "create", initialUser |-> authCurrent,
               newUser |-> NoIdentity]
    /\ UNCHANGED <<nonRegVars, authUsers, profiles, authCurrent, nextUid,
                   profileFailed, deleteRejected>>

\* createUserWithEmailAndPassword: the identity is created and signed in,
\* or the call rejects and control passes to the catch block
registerUser_create(ok) ==
    /\ reg.kind = "register"
    /\ reg.pc = "create"
    /\ IF ok
       THEN /\ authUsers' = authUsers \cup {nextUid}
            /\ authCurrent' = nextUid
            /\ nextUid' = nextUid + 1
            /\ reg' = [reg EXCEPT !.pc = "profile", !.newUser = nextUid]
       ELSE /\ reg' = [reg EXCEPT !.pc = "catch"]
            /\ UNCHANGED <<authUsers, authCurrent, nextUid>>
    /\ UNCHANGED <<nonRegVars, profiles, regStarted, profileFailed, deleteRejected>>

\* createUserProfile(newUser.uid, finalUserData): setDoc, or it rethrows
registerUser_createUserProfile(ok) ==
    /\ reg.kind = "register"
    /\ reg.pc = "profile"
    /\ IF ok
       THEN /\ profiles' = profiles \cup {reg.newUser}
            /\ reg' = [reg EXCEPT !.pc = "switch"]
            /\ UNCHANGED profileFailed
       ELSE /\ profileFailed' = profileFailed \cup {reg.newUser}
            /\ reg' = [reg EXCEPT !.pc = "catch"]
            /\ UNCHANGED profiles
    /\ UNCHANGED <<nonRegVars, authUsers, authCurrent, nextUid, regStarted, deleteRejected>>

\* auth.updateCurrentUser(initialUser) or auth.signOut(), then return
registerUser_switchBack(ok) ==
    /\ reg.kind = "register"
    /\ reg.pc = "switch"
    /\ IF ok
       THEN /\ authCurrent' = reg.initialUser
            /\ reg' = Idle
       ELSE /\ reg' = [reg EXCEPT !.pc = "catch"]
            /\ UNCHANGED authCurrent
    /\ UNCHANGED <<nonRegVars, authUsers, profiles, nextUid, regStarted,
                   profileFailed, deleteRejected>>

\* mutant: the catch block rethrows without deleting the identity
registerUser_catch_noDelete(ok) ==
    /\ reg.kind = "register"
    /\ reg.pc = "catch"
    /\ reg' = Idle
    /\ UNCHANGED <<nonRegVars, authUsers, authCurrent, profiles, nextUid,
                   regStarted, profileFailed, deleteRejected>>

\* the catch block: deleteUser is called on the current user when it is
\* not the initial user; a rejection of deleteUser is logged; the error is
\* rethrown
registerUser_catch(ok) ==
    /\ reg.kind = "register"
    /\ reg.pc = "catch"
    /\ IF /\ authCurrent # NoIdentity
          /\ (reg.initialUser = NoIdentity \/ authCurrent # reg.initialUser)
       THEN IF ok
            THEN /\ authUsers' = authUsers \ {authCurrent}
                 /\ authCurrent' = NoIdentity
                 /\ UNCHANGED deleteRejected
            ELSE /\ deleteRejected' = deleteRejected \cup {authCurrent}
                 /\ UNCHANGED <<authUsers, authCurrent>>
       ELSE UNCHANGED <<authUsers, authCurrent, deleteRejected>>
    /\ reg' = Idle
    /\ UNCHANGED <<nonRegVars, profiles, nextUid, regStarted, profileFailed>>

\* ------------------------------------------------------- members mirror

RECURSIVE OrderedBy(_)
\* orderBy('name', 'asc'): the documents of the set, smallest id first
OrderedBy(docs) ==
    IF docs = {} THEN <<>>
    ELSE LET first == CHOOSE d \in docs : \A e \in docs : d.id <= e.id
         IN <<first>> \o OrderedBy(docs \ {first})

\* mutant: the users handler pushes every document
loadedMembers_all(docs) ==
    LET all == OrderedBy(docs)
    IN [i \in 1..Len(all) |-> [id |-> all[i].id]]

\* snapshot.forEach of the users handler: only documents whose active field
\* is not false are pushed, as { id: doc.id, ... }
loadedMembers(docs) ==
    LET all == OrderedBy(docs)
        kept == FilterSeq(all, {d \in docs : d.active})
    IN [i \in 1..Len(kept) |-> [id |-> kept[i].id]]

\* a profile document is created or overwritten (createUserProfile, or a
\* write from outside the application)
users_setDoc(id, active) ==
    /\ memStarted < MaxMemberOps
    /\ [id |-> id, active |-> active] \notin serverUsers
    /\ memStarted' = memStarted + 1
    /\ serverUsers' = {d \in serverUsers : d.id # id} \cup {[id |-> id, active |-> active]}
    /\ memDue' = memLive
    /\ UNCHANGED <<taskVars, nonMemVars, teamMembers, dataLoading, memLive, memFailed>>

\* deleteUserAccount: batch.delete(userRef)
users_deleteDoc(id) ==
    /\ memStarted < MaxMemberOps
    /\ \E d \in serverUsers : d.id = id
    /\ memStarted' = memStarted + 1
    /\ serverUsers' = {d \in serverUsers : d.id # id}
    /\ memDue' = memLive
    /\ UNCHANGED <<taskVars, nonMemVars, teamMembers, dataLoading, memLive, memFailed>>

\* the users onSnapshot callback: setTeamMembers(loadedMembers)
users_onSnapshot ==
    /\ memLive
    /\ memDue
    /\ teamMembers' = loadedMembers(serverUsers)
    /\ dataLoading' = FALSE
    /\ memDue' = FALSE
    /\ UNCHANGED <<taskVars, nonMemVars, serverUsers, memLive, memFailed, memStarted>>

\* the users onSnapshot error callback: console.error and
\* setDataLoading(false); the listener receives nothing more
users_onError ==
    /\ memLive
    /\ memLive' = FALSE
    /\ memDue' = FALSE
    /\ memFailed' = TRUE
    /\ dataLoading' = FALSE
    /\ UNCHANGED <<taskVars, nonMemVars, serverUsers, teamMembers, memStarted>>

\* useAppData.addTeamMember: setTeamMembers(prev => [...prev, member])
addTeamMember(id) ==
    /\ memStarted < MaxMemberOps
    /\ memStarted' = memStarted + 1
    /\ teamMembers' = Append(teamMembers, [id |-> id])
    /\ UNCHANGED <<taskVars, nonMemVars, serverUsers, dataLoading, memLive, memDue,
                   memFailed>>

\* useAppData.updateTeamMember: the record with the member's id is replaced
\* by the member passed, the others stay
updateTeamMember(id) ==
    /\ memStarted < MaxMemberOps
    /\ memStarted' = memStarted + 1
    /\ teamMembers' = [i \in 1..Len(teamMembers) |->
                          IF teamMembers[i].id = id THEN [id |-> id] ELSE teamMembers[i]]
    /\ UNCHANGED <<taskVars, nonMemVars, serverUsers, dataLoading, memLive, memDue,
                   memFailed>>

\* useAppData.deleteTeamMember: setTeamMembers(prev => prev.filter(...))
deleteTeamMember(id) ==
    /\ memStarted < MaxMemberOps
    /\ [id |-> id] \in SeqToSet(teamMembers)
    /\ memStarted' = memStarted + 1
    /\ teamMembers' = FilterSeq(teamMembers, {m \in SeqToSet(teamMembers) : m.id # id})
    /\ UNCHANGED <<taskVars, nonMemVars, serverUsers, dataLoading, memLive, memDue,
                   memFailed>>

\* --------------------------------------------------- document functions

\* a document function is called with an id
document_call(fn, id) ==
    /\ call = Idle
    /\ docStarted < MaxDocOps
    /\ docStarted' = docStarted + 1
    /\ call' = [kind |-> fn, id |-> id, pc |-> "remote", missing |-> FALSE,
                rejected |-> FALSE]
    /\ UNCHANGED <<nonDocVars, stored, result, hasAttemptedReconnect, resets>>

\* the first remote call of the function settles: setDoc of addDocument,
\* getDoc of getDocument and updateDocument, deleteDoc of deleteDocument;
\* deleteDoc resolves whether or not the document exists
document_remote(ok) ==
    /\ call # Idle
    /\ call.pc = "remote"
    /\ IF ~ok
       THEN /\ call' = [call EXCEPT !.pc = "catch", !.rejected = TRUE,
                                    !.missing = call.id \notin stored]
            /\ UNCHANGED <<stored, result>>
       ELSE CASE call.kind = "addDocument" ->
                   /\ stored' = stored \cup {call.id}
                   /\ result' = [kind |-> call.kind, missing |-> call.id \notin stored,
                                 rejected |-> FALSE, outcome |-> "value"]
                   /\ call' = Idle
              [] call.kind = "getDocument" ->
                   /\ result' = [kind |-> call.kind, missing |-> call.id \notin stored,
                                 rejected |-> FALSE,
                                 outcome |-> IF call.id \in stored THEN "value" ELSE "null"]
                   /\ call' = Idle
                   /\ stored' = stored
              [] call.kind = "updateDocument" ->
                   /\ call' = IF call.id \in stored
                              THEN [call EXCEPT !.pc = "updateDoc"]
                              ELSE [call EXCEPT !.pc = "catch", !.missing = TRUE]
                   /\ UNCHANGED <<stored, result>>
              [] call.kind = "deleteDocument" ->
                   /\ stored' = stored \ {call.id}
                   /\ result' = [kind |-> call.kind, missing |-> call.id \notin stored,
                                 rejected |-> FALSE, outcome |-> "value"]
                   /\ call' = Idle
    /\ UNCHANGED <<nonDocVars, hasAttemptedReconnect, resets, docStarted>>

\* updateDocument: updateDoc(docRef, dataWithMeta) settles
updateDocument_updateDoc(ok) ==
    /\ call # Idle
    /\ call.pc = "updateDoc"
    /\ IF ok
       THEN /\ result' = [kind |-> call.kind, missing |-> FALSE, rejected |-> FALSE,
                          outcome |-> "value"]
            /\ call' = Idle
       ELSE /\ call' = [call EXCEPT !.pc = "catch", !.rejected = TRUE]
            /\ result' = result
    /\ UNCHANGED <<nonDocVars, stored, hasAttemptedReconnect, resets, docStarted>>

\* the catch block calls resetFirestoreConnection: when
\* hasAttemptedReconnect is false, disableNetwork is called; otherwise the
\* error is rethrown
document_catch ==
    /\ call # Idle
    /\ call.pc = "catch"
    /\ IF ~hasAttemptedReconnect
       THEN /\ resets' = resets + 1
            /\ call' = [call EXCEPT !.pc = "reset"]
            /\ result' = result
       ELSE /\ result' = [kind |-> call.kind, missing |-> call.missing,
                          rejected |-> call.rejected, outcome |-> "error"]
            /\ call' = Idle
            /\ resets' = resets
    /\ UNCHANGED <<nonDocVars, stored, hasAttemptedReconnect, docStarted>>

\* disableNetwork / enableNetwork settle: hasAttemptedReconnect is set
\* when both resolved, a rejection is logged; the document function then
\* rethrows its error
resetFirestoreConnection(ok) ==
    /\ call # Idle
    /\ call.pc = "reset"
    /\ hasAttemptedReconnect' = (hasAttemptedReconnect \/ ok)
    /\ result' = [kind |-> call.kind, missing |-> call.missing,
                  rejected |-> call.rejected, outcome |-> "error"]
    /\ call' = Idle
    /\ UNCHANGED <<nonDocVars, stored, resets, docStarted>>

\* ----------------------------------------------- account-deletion relay

\* handleUpdateTeamMember writes the position (role) and the
\* authorization tier (userRole) of a profile
handleUpdateTeamMember(id, userRole, role) ==
    /\ relayStarted < MaxRelayOps
    /\ relayStarted' = relayStarted + 1
    /\ userDocs' = [userDocs EXCEPT ![id] = [userRole |-> userRole, role |-> role]]
    /\ UNCHANGED <<nonRelayVars, accounts, response>>

\* what a relay answers, with what the request was
Answer(impl, userId, adminId, status, threw) ==
    [impl |-> impl, userId |-> userId, adminId |-> adminId, status |-> status,
     threw |-> threw]

\* admin.auth().deleteUser(userId) resolves
DeleteResolves(userId, ok) ==
    ok /\ userId \in accounts

\* POST /api/delete-user of the HTTP server: getUser(adminId), then the
\* userRole check, then deleteUser(userId); any rejection answers 500
api_delete_user(userId, adminId, ok) ==
    /\ relayStarted < MaxRelayOps
    /\ relayStarted' = relayStarted + 1
    /\ IF adminId \notin accounts
       THEN /\ response' = Answer("server", userId, adminId, 500, TRUE)
            /\ accounts' = accounts
       ELSE IF userDocs[adminId].userRole # "admin"
       THEN /\ response' = Answer("server", userId, adminId, 403, FALSE)
            /\ accounts' = accounts
       ELSE IF ~DeleteResolves(userId, ok)
       THEN /\ response' = Answer("server", userId, adminId, 500, TRUE)
            /\ accounts' = accounts
       ELSE /\ response' = Answer("server", userId, adminId, 200, FALSE)
            /\ accounts' = accounts \ {userId}
    /\ UNCHANGED <<nonRelayVars, userDocs>>

\* exports.deleteUser, the cloud function: the field check, then the role
\* check, then deleteUser(userId); a rejection answers 500
deleteUser(userId, adminId, ok) ==
    /\ relayStarted < MaxRelayOps
    /\ relayStarted' = relayStarted + 1
    /\ IF userId = Undefined \/ adminId = Undefined
       THEN /\ response' = Answer("function", userId, adminId, 400, FALSE)
            /\ accounts' = accounts
       ELSE IF userDocs[adminId].role # "admin"
       THEN /\ response' = Answer("function", userId, adminId, 403, FALSE)
            /\ accounts' = accounts
       ELSE IF ~DeleteResolves(userId, ok)
       THEN /\ response' = Answer("function", userId, adminId, 500, TRUE)
            /\ accounts' = accounts
       ELSE /\ response' = Answer("function", userId, adminId, 200, FALSE)
            /\ accounts' = accounts \ {userId}
    /\ UNCHANGED <<nonRelayVars, userDocs>>

\* ------------------------------------------------------ deleteUserAccount

\* getUserProfile(id) as deleteUserAccount sees it: the userRole of the
\* document, "none" for null (no document), or "error" for the placeholder
\* without a userRole that the catch block returns
profileRole(id, failed) ==
    IF failed THEN "error"
    ELSE IF id \in dataDeleted THEN "none"
    ELSE userDocs[id].userRole

\* deleteUserAccount up to its first await: auth.currentUser is read, and
\* without a current user the function throws
deleteUserAccount(caller, userId) ==
    /\ deletion = Idle
    /\ relayStarted < MaxRelayOps
    /\ relayStarted' = relayStarted + 1
    /\ deletion' = IF caller = NoIdentity THEN Idle
                   ELSE [pc |-> "profiles", currentUser |-> caller,
                         userId |-> userId, callerRole |-> "none"]
    /\ UNCHANGED <<nonAccountVars, userDocs, accounts, response, dataDeleted>>

\* mutant: a caller whose profile could not be loaded counts as admin
deleteUserAccount_getUserProfile_errorIsAdmin(targetFailed, callerFailed) ==
    /\ deletion # Idle
    /\ deletion.pc = "profiles"
    /\ LET userToDelete == profileRole(deletion.userId, targetFailed)
           currentUserProfile == profileRole(deletion.currentUser, callerFailed)
           isAdmin == currentUserProfile \in {"admin", "error"}
       IN deletion' =
            IF userToDelete = "none" THEN Idle
            ELSE IF ~isAdmin /\ deletion.currentUser # deletion.userId THEN Idle
            ELSE [deletion EXCEPT !.pc = "commit", !.callerRole = currentUserProfile]
    /\ UNCHANGED <<nonAccountVars, relayVars, dataDeleted>>

\* the two getUserProfile calls and the checks after them: a missing
\* target profile throws; isAdmin is userRole === 'admin' of the caller's
\* profile; a caller who is neither admin nor the target throws
deleteUserAccount_getUserProfile(targetFailed, callerFailed) ==
    /\ deletion # Idle
    /\ deletion.pc = "profiles"
    /\ LET userToDelete == profileRole(deletion.userId, targetFailed)
           currentUserProfile == profileRole(deletion.currentUser, callerFailed)
           isAdmin == currentUserProfile = "admin"
       IN deletion' =
            IF userToDelete = "none" THEN Idle
            ELSE IF ~isAdmin /\ deletion.currentUser # deletion.userId THEN Idle
            ELSE [deletion EXCEPT !.pc = "commit", !.callerRole = currentUserProfile]
    /\ UNCHANGED <<nonAccountVars, relayVars, dataDeleted>>

\* the three queries and batch.commit(): the user's tasks, comments,
\* approvals and profile are deleted, or a rejection is rethrown
deleteUserAccount_commit(ok) ==
    /\ deletion # Idle
    /\ deletion.pc = "commit"
    /\ IF ok
       THEN /\ dataDeleted' = dataDeleted \cup {deletion.userId}
            /\ deletion' = [deletion EXCEPT !.pc = "identity"]
       ELSE /\ dataDeleted' = dataDeleted
            /\ deletion' = Idle
    /\ UNCHANGED <<nonAccountVars, relayVars>>

\* the identity: currentUser.delete() for the caller's own account, else
\* for an admin the POST to the cloud function deleteUser, which checks
\* the role field of the caller's document (while that document exists)
deleteUserAccount_identity(ok) ==
    /\ deletion # Idle
    /\ deletion.pc = "identity"
    /\ accounts' =
         IF deletion.currentUser = deletion.userId
         THEN IF ok THEN accounts \ {deletion.userId} ELSE accounts
         ELSE IF /\ deletion.callerRole = "admin"
                 /\ deletion.currentUser \notin dataDeleted
                 /\ userDocs[deletion.currentUser].role = "admin"
                 /\ DeleteResolves(deletion.userId, ok)
              THEN accounts \ {deletion.userId}
              ELSE accounts
    /\ deletion' = Idle
    /\ UNCHANGED <<nonAccountVars, userDocs, response, relayStarted, dataDeleted>>

\* ------------------------------------------------ subtask objects

\* the objects JSON.parse(JSON.stringify(list)) makes: one new object per
\* element, with the fields of the element
clonedHeap(h, list) == h \o [k \in 1..Len(list) |-> h[list[k]]]

\* mutant: the list itself is handed on
clonedList_same(h, list) == list

\* the list JSON.parse(JSON.stringify(list)) returns: the references of
\* the new objects, in the order of the elements
clonedList(h, list) == [k \in 1..Len(list) |-> Len(h) + k]

\* handleAddSubtask: [...task.subtasks, newSubtask] with a new object
TaskSubtasks_handleAddSubtask ==
    /\ clonePc # "updateDoc"
    /\ cloneStarted < MaxCloneOps
    /\ cloneStarted' = cloneStarted + 1
    /\ heap' = Append(heap, FALSE)
    /\ writtenList' = Append(mirrorList, Len(heap) + 1)
    /\ clonePc' = "updateDoc"
    /\ UNCHANGED <<nonCloneVars, mirrorList, localTaskList, handedOut>>

\* handleToggleSubtask: task.subtasks.map(...) puts a new object
\* {...subtask, completed: !subtask.completed} in place of the i-th and
\* keeps the other objects
TaskSubtasks_handleToggleSubtask(i) ==
    /\ clonePc # "updateDoc"
    /\ cloneStarted < MaxCloneOps
    /\ i <= Len(mirrorList)
    /\ cloneStarted' = cloneStarted + 1
    /\ heap' = Append(heap, ~heap[mirrorList[i]])
    /\ writtenList' = [mirrorList EXCEPT ![i] = Len(heap) + 1]
    /\ clonePc' = "updateDoc"
    /\ UNCHANGED <<nonCloneVars, mirrorList, localTaskList, handedOut>>

\* handleDeleteSubtask: task.subtasks.filter(...) keeps the other objects
TaskSubtasks_handleDeleteSubtask(i) ==
    /\ clonePc # "updateDoc"
    /\ cloneStarted < MaxCloneOps
    /\ i <= Len(mirrorList)
    /\ cloneStarted' = cloneStarted + 1
    /\ writtenList' = [k \in 1..(Len(mirrorList) - 1) |->
                          IF k < i THEN mirrorList[k] ELSE mirrorList[k + 1]]
    /\ clonePc' = "updateDoc"
    /\ UNCHANGED <<nonCloneVars, heap, mirrorList, localTaskList, handedOut>>

\* updateTaskInFirestore after its awaits: updateDoc wrote
\* updatedTask.subtasks and onUpdate receives the task with the cloned list,
\* or a remote call rejected and the mirror is left alone
TaskSubtasks_updateTaskInFirestore(ok) ==
    /\ clonePc = "updateDoc"
    /\ IF ok
       THEN /\ heap' = clonedHeap(heap, writtenList)
            /\ mirrorList' = clonedList(heap, writtenList)
            /\ handedOut' = handedOut \cup SeqToSet(mirrorList)
            /\ clonePc' = "done"
       ELSE /\ clonePc' = "failed"
            /\ UNCHANGED <<heap, mirrorList, handedOut>>
    /\ UNCHANGED <<nonCloneVars, writtenList, localTaskList, cloneStarted>>

\* the sync effects of TaskDetailDialog: setLocalTask(JSON.parse(
\* JSON.stringify(task)))
TaskDetailDialog_useEffect ==
    /\ cloneStarted < MaxCloneOps
    /\ cloneStarted' = cloneStarted + 1
    /\ heap' = clonedHeap(heap, mirrorList)
    /\ localTaskList' = clonedList(heap, mirrorList)
    /\ UNCHANGED <<nonCloneVars, mirrorList, writtenList, handedOut, clonePc>>

\* -------------------------------------------------------- notifications

\* mutant: every recipient is notified, the actor too
NotifiedRecipients_all(type, recipients, actor, mentionedUserIds) ==
    IF type = "TASK_MENTION" /\ mentionedUserIds.given
    THEN {r \in recipients : r.id \in mentionedUserIds.ids}
    ELSE recipients

\* createTaskNotification: the recipients a notification is created for
NotifiedRecipients(type, recipients, actor, mentionedUserIds) ==
    IF type = "TASK_MENTION" /\ mentionedUserIds.given
    THEN {r \in {m \in recipients : m.id \in mentionedUserIds.ids} : r.id # actor.id}
    ELSE {r \in recipients : r.id # actor.id}

\* createTaskNotification(task, type, recipients, actor, mentionedUserIds):
\* createNotification adds a document per notified recipient; an addDoc
\* that rejects is logged and adds nothing
createTaskNotification(type, recipients, actor, mentionedUserIds, added) ==
    /\ notifyStarted < MaxNotifyOps
    /\ notifyStarted' = notifyStarted + 1
    /\ added \subseteq
          {r.id : r \in NotifiedRecipients(type, recipients, actor, mentionedUserIds)}
    /\ created' = created \cup
          {[channel |-> "notifications", userId |-> id, by |-> actor.id] : id \in added}
    /\ lastNotify' = [type |-> type, recipients |-> {r.id : r \in recipients},
                      actor |-> actor.id, mentioned |-> mentionedUserIds.ids]
    /\ UNCHANGED nonNotifyVars

\* handleAddComment after the write: the assignee, the admins and the
\* managers, the current user excepted, get the update email
EmailRecipients(uid, assignedTo) ==
    {m \in Team : m.id # uid /\
                  (m.id = assignedTo \/ m.userRole = "admin" \/ m.userRole = "manager")}

\* handleAddComment calls sendTaskUpdateEmail, which queues one mail to
\* the recipients; a rejection is logged
handleAddComment_sendTaskUpdateEmail(uid, assignedTo, ok) ==
    /\ notifyStarted < MaxNotifyOps
    /\ notifyStarted' = notifyStarted + 1
    /\ created' = IF ok
                  THEN created \cup {[channel |-> "mail", userId |-> m.id, by |-> uid] :
                                        m \in EmailRecipients(uid, assignedTo)}
                  ELSE created
    /\ lastNotify' = [type |-> "mail", recipients |-> TeamIds, actor |-> uid,
                      mentioned |-> {}]
    /\ UNCHANGED nonNotifyVars

\* --------------------------------------------------- ensureAuthenticated

\* mutant: a later resolve or reject replaces the outcome
Settle_last(w, outcome, by) ==
    [w EXCEPT !.promise = outcome, !.by = by]

\* resolve / reject of the promise: only the first call settles it
Settle(w, outcome, by) ==
    IF w.promise = "pending"
    THEN [w EXCEPT !.promise = outcome, !.by = by]
    ELSE w

\* ensureAuthenticated(): resolves at once when auth.currentUser is set;
\* otherwise registers the listener, whose first callback is due, and
\* starts the 5 s timer
ensureAuthenticated(c) ==
    /\ waits[c].promise = "none"
    /\ waitStarted < MaxWaitOps
    /\ waitStarted' = waitStarted + 1
    /\ waits' = [waits EXCEPT ![c] =
          IF signedIn
          THEN [NotCalled EXCEPT !.promise = "resolved", !.by = "currentUser"]
          ELSE [NotCalled EXCEPT !.promise = "pending", !.listening = TRUE,
                                 !.due = TRUE, !.timer = "armed"]]
    /\ UNCHANGED <<nonWaitVars, signedIn>>

\* the authentication state changes; every registered listener is due
authStateChanges(v) ==
    /\ signedIn # v
    /\ waitStarted < MaxWaitOps
    /\ waitStarted' = waitStarted + 1
    /\ signedIn' = v
    /\ waits' = [c \in Waiters |->
                    IF waits[c].listening THEN [waits[c] EXCEPT !.due = TRUE]
                    ELSE waits[c]]
    /\ UNCHANGED nonWaitVars

\* the listener's callback: unsubscribe(), then resolve(user) or
\* reject('User is not authenticated')
ensureAuthenticated_callback(c) ==
    /\ waits[c].listening
    /\ waits[c].due
    /\ waits' = [waits EXCEPT ![c] =
          Settle([waits[c] EXCEPT !.listening = FALSE, !.due = FALSE],
                 IF signedIn THEN "resolved" ELSE "rejected", "callback")]
    /\ UNCHANGED <<nonWaitVars, signedIn, waitStarted>>

\* the timer, which is never cleared, fires: unsubscribe(), then
\* reject('Authentication check timed out')
ensureAuthenticated_timeout(c) ==
    /\ waits[c].timer = "armed"
    /\ waits' = [waits EXCEPT ![c] =
          Settle([waits[c] EXCEPT !.listening = FALSE, !.due = FALSE,
                                  !.timer = "fired"],
                 "rejected", "timer")]
    /\ UNCHANGED <<nonWaitVars, signedIn, waitStarted>>

\* ----------------------------------------------------- refreshConnection

\* an effect of AppDataProvider runs (currentUser or authInitialized
\* changed): the cleanup unsubscribes and onSnapshot registers a listener
\* on the instance db holds now
AppDataProvider_effect(k) ==
    /\ refreshStarted < MaxRefreshOps
    /\ refreshStarted' = refreshStarted + 1
    /\ subs' = [subs EXCEPT ![k] = [live |-> TRUE, handle |-> dbHandle]]
    /\ UNCHANGED <<nonRefreshVars, hasAttemptedReconnect, resets, dbHandle, refresh,
                   refreshed>>

\* refreshConnection calls refreshFirebaseConnection: initializeApp,
\* getAuth and getFirestore replace app, auth and db, then
\* resetFirestoreConnection is awaited; when initializeApp throws, false
\* is returned
refreshConnection(ok) ==
    /\ refresh = Idle
    /\ refreshStarted < MaxRefreshOps
    /\ refreshStarted' = refreshStarted + 1
    /\ IF ok
       THEN /\ dbHandle' = dbHandle + 1
            /\ refresh' = [kind |-> "refresh"]
            /\ refreshed' = "none"
            /\ resets' = IF hasAttemptedReconnect THEN resets ELSE resets + 1
       ELSE /\ refreshed' = "false"
            /\ UNCHANGED <<dbHandle, refresh, resets>>
    /\ UNCHANGED <<nonRefreshVars, hasAttemptedReconnect, subs>>

\* resetFirestoreConnection settles, its own failure is only logged;
\* refreshFirebaseConnection returns true and refreshConnection shows
\* the toast and returns true
refreshConnection_continue(ok) ==
    /\ refresh # Idle
    /\ hasAttemptedReconnect' = (hasAttemptedReconnect \/ ok)
    /\ refreshed' = "true"
    /\ refresh' = Idle
    /\ UNCHANGED <<nonRefreshVars, resets, dbHandle, subs, refreshStarted>>

\* ------------------------------------------------------------- mentions

RECURSIVE Trim(_)
\* String.prototype.trim: blanks at both ends are removed
Trim(t) ==
    IF t = <<>> THEN t
    ELSE IF Head(t) = " " THEN Trim(Tail(t))
    ELSE IF t[Len(t)] = " " THEN Trim(SubSeq(t, 1, Len(t) - 1))
    ELSE t

RECURSIVE matchAll(_, _)
\* commentText.matchAll(/@([a-zA-Z\s]+)/g).map(match => match[1].trim()),
\* from position i on: after an @ the longest run of letters and blanks is
\* captured and the search goes on behind it
matchAll(t, i) ==
    IF i >= Len(t) THEN {}
    ELSE IF t[i] = "@" /\ t[i + 1] \in NameChars
    THEN LET j == CHOOSE e \in (i + 1)..Len(t) :
                     /\ \A k \in (i + 1)..e : t[k] \in NameChars
                     /\ e = Len(t) \/ t[e + 1] \notin NameChars
         IN {Trim(SubSeq(t, i + 1, j))} \cup matchAll(t, j + 1)
    ELSE matchAll(t, i + 1)

\* the ids of the team members whose name is one of the mentions
mentionedUsers(t) ==
    {m.id : m \in {n \in Named : n.name \in matchAll(t, 1)}}

\* a character is typed into the comment box: setNewComment
setNewComment(ch) ==
    /\ Len(newComment) < MaxTextLen
    /\ newComment' = Append(newComment, ch)
    /\ UNCHANGED <<nonMentionVars, storedMentions>>

\* TaskComments.handleAddComment: a comment that is not blank is stored
\* with mentions: mentionedUsers, and the box is cleared
TaskComments_handleAddComment ==
    /\ Trim(newComment) # <<>>
    /\ storedMentions' = mentionedUsers(newComment)
    /\ newComment' = <<>>
    /\ UNCHANGED nonMentionVars

\* ------------------------------------------------------- specifications

\* status changes from the task cards
NextStatus ==
    \/ \E u \in Users : handleCreateTask(u)
    \/ \E u \in Users : onSnapshot(u)
    \/ \E u \in Users, s \in StatusSet : handleStatusChange_begin(u, s)
    \/ \E u \in Users : handleStatusChange_updateDoc(u)
    \/ \E u \in Users : handleStatusChange_onTaskUpdate(u)
    \/ \E u \in Users : handler_catch(u)

SpecStatus == Init /\ [][NextStatus]_vars

\* approvals and rejections from the approval dialog, with the effect that
\* repairs progress values
NextApprovals ==
    \/ \E u \in Users : handleCreateTask(u)
    \/ \E u \in Users : onSnapshot(u)
    \/ \E u \in Users : handleApprove_begin(u)
    \/ \E u \in Users : handleReject_begin(u)
    \/ \E u \in Users : handleApproval_getDoc(u)
    \/ \E u \in Users : handleApprove_updateDoc(u)
    \/ \E u \in Users : handleApprove_onTaskUpdate(u)
    \/ \E u \in Users : handleReject_updateDoc(u)
    \/ \E u \in Users : handleReject_onTaskUpdate(u)
    \/ \E u \in Users : updateTasksProgress_begin(u)
    \/ \E u \in Users : updateTasksProgress_updateDoc(u)
    \/ \E u \in Users : updateTasksProgress_onTaskUpdate(u)
    \/ \E u \in Users : handler_catch(u)
    \/ \E u \in Users : updateTasksProgress_catch(u)

SpecApprovals == Init /\ [][NextApprovals]_vars

\* comments added from the comments panel and deleted from the board
NextComments ==
    \/ \E u \in Users : handleCreateTask(u)
    \/ \E u \in Users : onSnapshot(u)
    \/ \E u \in Users, x \in Texts : TaskComments_handleAddComment_begin(u, x)
    \/ \E u \in Users : TaskComments_handleAddComment_getDoc(u)
    \/ \E u \in Users : TaskComments_handleAddComment_updateDoc(u)
    \/ \E u \in Users : handleAddComment_begin(u)
    \/ \E u \in Users : handleAddComment_getDoc(u)
    \/ \E u \in Users : handleAddComment_updateDoc(u)
    \/ \E u \in Users : handleAddComment_onTaskUpdate(u)
    \/ \E u \in Users, id \in Uuids : handleDeleteComment_begin(u, id)
    \/ \E u \in Users : handleDeleteComment_getDoc(u)
    \/ \E u \in Users : handleDeleteComment_updateDoc(u)
    \/ \E u \in Users : handler_catch(u)

SpecComments == Init /\ [][NextComments]_vars

\* subtask edits from the task detail dialog
NextSubtasks ==
    \/ \E u \in Users : handleCreateTask(u)
    \/ \E u \in Users : onSnapshot(u)
    \/ \E u \in Users, t \in Titles : handleAddSubtask(u, t)
    \/ \E u \in Users, id \in Uuids : handleToggleSubtask(u, id)
    \/ \E u \in Users, id \in Uuids : handleDeleteSubtask(u, id)
    \/ \E u \in Users, id \in Uuids, t \in Titles : saveEditedSubtask(u, id, t)
    \/ \E u \in Users : updateTaskInFirestore_getDoc(u)
    \/ \E u \in Users : updateTaskInFirestore_updateDoc(u)
    \/ \E u \in Users : updateTaskInFirestore_onUpdate(u)
    \/ \E u \in Users : handler_catch(u)

SpecSubtasks == Init /\ [][NextSubtasks]_vars

\* two browsers on the messaging panel
NextChat ==
    \/ \E u \in Users : loadConversations_onSnapshot(u)
    \/ \E u \in Users, i \in 1..MaxChatOps : selectConversation(u, i)
    \/ \E u \in Users : closeConversation(u)
    \/ \E u \in Users, text \in Texts : handleSendMessage(u, text)
    \/ \E u \in Users : handleSendMessage_getDoc(u)
    \/ \E u \in Users : handleSendMessage_updateDoc(u)
    \/ \E u \in Users : handleSendMessage_finally(u)
    \/ \E u \in Users : handleSendMessage_catch(u)
    \/ \E u \in Users, recipientId \in Members : handleCreateDirectMessage(u, recipientId)
    \/ \E u \in Users : handleCreateDirectMessage_addDoc(u)
    \/ \E u \in Users : handleCreateDirectMessage_continue(u)
    \/ \E u \in Users : handleCreateDirectMessage_catch(u)
    \/ \E u \in Users : handleClearMessages(u)
    \/ \E u \in Users : handleClearMessages_updateDoc(u)
    \/ \E u \in Users : handleClearMessages_continue(u)
    \/ \E u \in Users : handleClearMessages_catch(u)

SpecChat == Init /\ [][NextChat]_vars

\* one browser signing in and out while its components load the profile
NextAuth ==
    \/ \E user \in Users \cup {NoUser} : onAuthStateChanged(user)
    \/ render
    \/ \E c \in Callers : loadUserProfile(c)
    \/ \E c \in Callers, outcome \in Outcomes : loadUserProfile_continue(c, outcome)

SpecAuth == Init /\ [][NextAuth]_vars

\* one browser signing in and out under AppDataProvider
NextSubscriptions ==
    \/ \E user \in Users \cup {NoUser} : onAuthStateChanged(user)
    \/ \E k \in Kinds : effect(k)
    \/ \E i \in 1..(2 * MaxAuthOps) : listener_onSnapshot(i)
    \/ \E k \in Kinds : collectionChanged(k)

SpecSubscriptions == Init /\ [][NextSubscriptions]_vars

\* the administrator's browser adding team members
NextRegister ==
    \/ logoutUser
    \/ loginUser
    \/ registerUser
    \/ \E ok \in BOOLEAN : registerUser_create(ok)
    \/ \E ok \in BOOLEAN : registerUser_createUserProfile(ok)
    \/ \E ok \in BOOLEAN : registerUser_switchBack(ok)
    \/ \E ok \in BOOLEAN : registerUser_catch(ok)

SpecRegister == Init /\ [][NextRegister]_vars

\* one browser under AppDataProvider: its two mirrors and their listeners
NextMirrors ==
    \/ \E id \in MemberIds, active \in BOOLEAN : users_setDoc(id, active)
    \/ \E id \in MemberIds : users_deleteDoc(id)
    \/ users_onSnapshot
    \/ users_onError
    \/ \E id \in MemberIds : addTeamMember(id)
    \/ \E id \in MemberIds : updateTeamMember(id)
    \/ \E id \in MemberIds : deleteTeamMember(id)
    \/ handleCreateTask("u1")
    \/ onSnapshot("u1")

SpecMirrors == Init /\ [][NextMirrors]_vars

\* one process calling the document functions one after the other
NextDocuments ==
    \/ \E fn \in Fns, id \in DocIds : document_call(fn, id)
    \/ \E ok \in BOOLEAN : document_remote(ok)
    \/ \E ok \in BOOLEAN : updateDocument_updateDoc(ok)
    \/ document_catch
    \/ \E ok \in BOOLEAN : resetFirestoreConnection(ok)

SpecDocuments == Init /\ [][NextDocuments]_vars

\* requests to both relays, between edits of the profiles
NextRelay ==
    \/ \E id \in RelayIds, userRole \in UserRoles, role \in Positions :
          handleUpdateTeamMember(id, userRole, role)
    \/ \E userId, adminId \in RelayIds \cup {Undefined}, ok \in BOOLEAN :
          api_delete_user(userId, adminId, ok)
    \/ \E userId, adminId \in RelayIds \cup {Undefined}, ok \in BOOLEAN :
          deleteUser(userId, adminId, ok)

SpecRelay == Init /\ [][NextRelay]_vars

\* task events that notify
NextNotify ==
    \/ \E type \in NotificationTypes, recipients \in SUBSET Team, actor \in Team,
          mentionedUserIds \in Mentions, added \in SUBSET TeamIds :
          createTaskNotification(type, recipients, actor, mentionedUserIds, added)
    \/ \E uid \in TeamIds, assignedTo \in TeamIds, ok \in BOOLEAN :
          handleAddComment_sendTaskUpdateEmail(uid, assignedTo, ok)

SpecNotify == Init /\ [][NextNotify]_vars

\* calls of ensureAuthenticated while the user signs in and out
NextWait ==
    \/ \E c \in Waiters : ensureAuthenticated(c)
    \/ \E v \in BOOLEAN : authStateChanges(v)
    \/ \E c \in Waiters : ensureAuthenticated_callback(c)
    \/ \E c \in Waiters : ensureAuthenticated_timeout(c)

SpecWait == Init /\ [][NextWait]_vars

\* refreshes of the connection while the provider's effects run
NextRefresh ==
    \/ \E k \in Kinds : AppDataProvider_effect(k)
    \/ \E ok \in BOOLEAN : refreshConnection(ok)
    \/ \E ok \in BOOLEAN : refreshConnection_continue(ok)

SpecRefresh == Init /\ [][NextRefresh]_vars

\* comments typed and submitted
NextMentions ==
    \/ \E ch \in Chars : setNewComment(ch)
    \/ TaskComments_handleAddComment

SpecMentions == Init /\ [][NextMentions]_vars

\* ----------------------------------------------------------- properties

ServerRecords == {serverTasks[i].data : i \in 1..Len(serverTasks)}
ServerStatuses == {r.status : r \in ServerRecords}
MirrorRecords(u) == {tasks[u][i] : i \in 1..Len(tasks[u])}
Consistent(r) == r.progress = ProgressOf(r.status)
AllIdle == \A u \in Users : op[u] = Idle /\ fx[u] = Idle
Quiet == AllIdle /\ \A u \in Users : ~pending[u]

\* C1: every step that changes the status of the server record or of a
\* mirror record (a status change, or the move from Todo to In Progress an
\* approval causes) leaves that record with the progress of its status:
\* 0, 33, 66 or 100.
C1_StatusChangeSetsProgress ==
    [][/\ ServerStatuses' # ServerStatuses /\ ServerStatuses # {}
          => \A r \in ServerRecords' : Consistent(r)
       /\ \A u \in Users :
             ({r.status : r \in MirrorRecords(u)}' # {r.status : r \in MirrorRecords(u)}
                 /\ MirrorRecords(u) # {})
             => \A r \in MirrorRecords(u)' : Consistent(r)]_vars

\* C2: in every reachable state every record of every mirror has the
\* progress of its status.
C2_MirrorNeverDiverges ==
    \A u \in Users : \A r \in MirrorRecords(u) : Consistent(r)

CommentIds(comments) == {c.id : c \in SeqToSet(comments)}
CommentKeys(comments) == {CommentKey(c) : c \in SeqToSet(comments)}

\* C4: a mirror record never lists two comments with the same (id, content)
\* key: when the handler's local update brings comments [A,B,C] to a mirror
\* that a snapshot has already given [A,B,C], the result is [A,B,C].
C4_NoDuplicateKey ==
    \A u \in Users : \A r \in MirrorRecords(u) :
        \A i, j \in 1..Len(r.comments) :
            CommentKey(r.comments[i]) = CommentKey(r.comments[j]) => i = j

\* C4 witness: a local update found all its comments in the mirror (the
\* snapshot had come first), no comment was ever deleted, and the mirror
\* agrees with the server on two or more comments
C4_Witness ==
    /\ last = "deduped"
    /\ removed = {}
    /\ \E u \in Users : \E r \in MirrorRecords(u) : \E d \in ServerRecords :
          Len(r.comments) >= 2 /\ r.comments = d.comments

\* the merge the claim describes: the server's list, then the optimistic
\* entries whose key matches no server entry
ReconciledComments(server, optimistic) ==
    server \o FilterSeq(optimistic,
                 {c \in SeqToSet(optimistic) : CommentKey(c) \notin CommentKeys(server)})

\* a step that delivers a snapshot to u
SnapshotStep(u) == pending[u] /\ ~pending'[u]

\* no write of a comment has been lost so far
NoLostComment ==
    \A c \in written : c.id \notin removed
                       => \A d \in ServerRecords : c \in SeqToSet(d.comments)

CountText(comments, x) == Cardinality({i \in 1..Len(comments) : comments[i].content = x})

\* C6: once everything has settled after a user submitted one comment with
\* some text (the write went through, nothing was deleted), the server
\* record and every mirror list that text exactly once.
C6_SubmittedOnceShownOnce ==
    \A x \in Texts :
        (Quiet /\ submitted[x] = 1 /\ written # {} /\ removed = {})
        => /\ \A d \in ServerRecords : CountText(d.comments, x) = 1
           /\ \A u \in Users : \A r \in MirrorRecords(u) : CountText(r.comments, x) = 1

\* C10: once no handler is in flight, every comment whose write reached the
\* server and that nobody deleted is in the server record.
C10_NoLostEntry ==
    AllIdle => \A c \in written :
                  c.id \notin removed
                  => \A d \in ServerRecords : c \in SeqToSet(d.comments)

\* C7: the approvals list of the server record holds at most one entry per
\* approver, and the entry of an approver carries the decision of that
\* approver's last submission.
C7_OneEntryLatestDecision ==
    \A d \in ServerRecords :
        /\ \A i, j \in 1..Len(d.approvals) :
              d.approvals[i].partnerId = d.approvals[j].partnerId => i = j
        /\ \A i \in 1..Len(d.approvals) :
              decided[d.approvals[i].partnerId] =
                  IF d.approvals[i].approved THEN "approved" ELSE "rejected"

RECURSIVE ReconciledApprovals(_, _)
\* the merge the claim describes: each optimistic entry replaces the server
\* entry of its approver, or is appended
ReconciledApprovals(server, optimistic) ==
    IF optimistic = <<>> THEN server
    ELSE ReconciledApprovals(newApprovals(server, Head(optimistic)), Tail(optimistic))

\* no write of an approval has been lost or overwritten so far
NoLostApproval ==
    \A u \in Users : decided[u] # "none" =>
        \A d \in ServerRecords :
            [partnerId |-> u, approved |-> (decided[u] = "approved")] \in SeqToSet(d.approvals)

SameButFlags(a, b) ==
    /\ Len(a) = Len(b)
    /\ \A i \in 1..Len(a) : a[i].id = b[i].id /\ a[i].title = b[i].title

\* C9: the list a toggle is about to write is the list of the copy fetched
\* just before the write, with the subtask's completed flag negated, so a
\* toggle made after another toggle undoes it (stated for the case that the
\* fetched copy and the user's copy hold the same subtasks).
C9_ToggleFromFetchedCopy ==
    \A u \in Users :
        (op[u].kind = "SubTaskManager" /\ op[u].pc = "updateDoc"
            /\ op[u].edit.type = "toggle"
            /\ SameButFlags(op[u].task.subtasks, op[u].currentData.subtasks))
        => op[u].subtasks = toggledSubtasks(op[u].currentData.subtasks, op[u].edit.id)

\* C11: in every reachable state the conversations collection holds at most
\* one non-group conversation per unordered pair of members: a second
\* request for a direct conversation between the same two members, from
\* either side and whether or not the first request has been confirmed,
\* reuses the stored one.
C11_OneDirectPerPair ==
    \A i, j \in 1..Len(serverConvs) :
        ( /\ ~serverConvs[i].isGroup
          /\ ~serverConvs[j].isGroup
          /\ SeqToSet(serverConvs[i].participants) = SeqToSet(serverConvs[j].participants) )
        => i = j

\* a is contained in b with the relative order kept
RECURSIVE IsSubSeq(_, _)
IsSubSeq(a, b) ==
    IF a = <<>> THEN TRUE
    ELSE IF b = <<>> THEN FALSE
    ELSE IF Head(a) = Head(b) THEN IsSubSeq(Tail(a), Tail(b))
    ELSE IsSubSeq(a, Tail(b))

\* C12: messages are append-only: across every step that is not the write
\* of the bulk clear, every stored conversation is still stored and every
\* message it held is still in it, unchanged and in the same relative
\* order, whether or not sends overlap.
C12_MessagesAppendOnly ==
    [][ \/ \E u \in Users : handleClearMessages_updateDoc(u)
        \/ \A i \in 1..Len(serverConvs) :
              /\ HasConv(serverConvs', serverConvs[i].id)
              /\ IsSubSeq(serverConvs[i].messages,
                          FindConv(serverConvs', serverConvs[i].id).messages) ]_vars

\* C14: every mutating user action ends with a success acknowledgment or a
\* failure notice shown to the user: whenever a messaging handler that
\* went on to its remote write returns, a toast has been shown since the
\* handler began, also when the write failed and the optimistic local
\* state was kept.
C14_EveryActionEndsWithNotice ==
    [][ \A u \in Users :
           (chat[u] # Idle /\ chat'[u] = Idle) => toast'[u] # "none" ]_vars

\* the message is shown in the browser of u: it is in the open conversation
\* or in the entry of the conversation in the list
Visible(u, conv, msg) ==
    \/ /\ activeConversation[u].id = conv
       /\ msg \in SeqToSet(activeConversation[u].messages)
    \/ /\ HasConv(conversations[u], conv)
       /\ msg \in SeqToSet(FindConv(conversations[u], conv).messages)

\* C15: a message whose remote write failed is kept as a local record and
\* stays visible in the sender's view of the conversation afterwards, as
\* long as the conversation has not been cleared.
C15_UnsentStaysVisible ==
    \A m \in unsent : Visible(m.by, m.conv, m.msg)

\* the step is a call of handleSendMessage in the browser of u
SendCalled(u) == sendCalls'[u] = sendCalls[u] + 1

\* C16 as stated: a send issued before the first send's remote confirmation
\* has returned is not blocked: it is accepted and appended locally at the
\* end of the thread.
C16_SecondSendNotBlocked ==
    [][ \A u \in Users :
           (SendCalled(u) /\ chat[u].kind = "send") =>
               /\ sendsAccepted'[u] = sendsAccepted[u] + 1
               /\ Len(activeConversation'[u].messages) =
                     Len(activeConversation[u].messages) + 1 ]_vars

\* C16 amended: a send issued while an operation of the panel is still
\* awaiting its remote call returns at once and changes nothing; a send
\* issued when none is in flight is appended at the end of the open thread
\* and of its entry in the list before any remote call is made.
C16_SendBlockedWhileSending ==
    [][ \A u \in Users :
           SendCalled(u) =>
               IF chat[u] # Idle
               THEN UNCHANGED <<serverConvs, conversations, activeConversation,
                                chat, toast, sendsAccepted>>
               ELSE /\ chat'[u].kind = "send"
                    /\ chat'[u].pc = "getDoc"
                    /\ activeConversation'[u].messages =
                          Append(activeConversation[u].messages, chat'[u].messageData)
                    /\ \A i \in 1..Len(conversations[u]) :
                          conversations[u][i].id = activeConversation[u].id =>
                              conversations'[u][i] = activeConversation'[u]
                    /\ serverConvs' = serverConvs ]_vars

\* a send was issued while the first was awaiting its confirmation, and one
\* message has been appended to the thread
C16_Witness ==
    \E u \in Users :
        /\ chat[u].kind = "send"
        /\ sendCalls[u] = 2
        /\ sendsAccepted[u] = 1
        /\ Len(activeConversation[u].messages) = 1

\* C17: whenever the current identity is null after a sign-out, the session
\* store's profile is null, also when a profile load was in flight at the
\* moment of sign-out.
C17_SignedOutNoProfile ==
    currentUser = NoUser => userData = NoData

\* C18: at most one execution of loadUserProfile is in progress at any
\* time: a call made while another is running starts no second fetch.
C18_OneLoadAtATime ==
    Cardinality({c \in Callers : run[c] # Idle}) <= 1

\* the number of failed loads in a row after which loadUserProfile no
\* longer fetches: profileLoadAttempts < 2
GiveUpAfter == 2

\* C19: once GiveUpAfter consecutive profile loads have failed, further
\* calls of loadUserProfile perform no fetch, and the last error is still
\* exposed as profileError.
C19_GivesUpAfterFailures ==
    [][ failures >= GiveUpAfter =>
           /\ fetches' = fetches
           /\ profileError # "null" ]_vars

\* the listeners of collection k that are attached
Live(k) == {i \in 1..Len(listeners) : listeners[i].kind = k /\ listeners[i].live}

\* once the effect of k has run for the current identity: the listeners
\* opened under a previous identity are detached, and a listener of the
\* current identity is attached exactly when somebody is signed in
Rebound(k) ==
    effectUser[k] = currentUser =>
        /\ \A i \in Live(k) : listeners[i].user = currentUser
        /\ Cardinality(Live(k)) = IF currentUser = NoUser THEN 0 ELSE 1
        /\ currentUser = NoUser => shown[k] = 0

\* C20: no subscription keeps running against a stale identity: when the
\* identity changes, the effects detach the listeners opened under the
\* previous identity and open new ones, and from then on a snapshot that
\* is applied to a mirror comes from an attached listener of the current
\* identity, never from a detached one.
C20_NoStaleSubscription ==
    [][ \A k \in Kinds :
           /\ Rebound(k)'
           /\ (shown'[k] # shown[k] /\ shown'[k] # 0) =>
                 /\ listeners[shown'[k]].live
                 /\ effectUser[k] = currentUser =>
                       listeners[shown'[k]].user = currentUser ]_vars

\* the identity went from one user to another, the old listener of tasks
\* is detached and the mirror holds a snapshot of the new listener
C20_Witness ==
    /\ currentUser # NoUser
    /\ effectUser["tasks"] = currentUser
    /\ shown["tasks"] # 0
    /\ listeners[shown["tasks"]].user = currentUser
    /\ \E i \in 1..Len(listeners) :
          /\ listeners[i].kind = "tasks"
          /\ listeners[i].user \notin {currentUser, NoUser}
          /\ ~listeners[i].live

\* the identities other than the administrator's that have no profile
Orphans == {id \in authUsers : id # Admin /\ id \notin profiles}

\* C13 as stated: if profile creation fails after the identity was
\* created, the identity is deleted: once registerUser has returned or
\* thrown, no authentication identity exists without a profile record.
C13_NoOrphanIdentity ==
    reg = Idle => Orphans = {}

\* C13 amended: if profile creation fails after the identity was created,
\* the catch block calls deleteUser on the new identity when it is still
\* the current user: when the call succeeds the identity is deleted and
\* leaves no identity without a profile record; when the call rejects the
\* identity stays.
C13_DeletedUnlessDeleteRejected ==
    [][ ( /\ reg.kind = "register"
          /\ reg.pc = "catch"
          /\ reg' = Idle
          /\ reg.newUser \in profileFailed
          /\ authCurrent = reg.newUser )
        => IF reg.newUser \in deleteRejected'
           THEN reg.newUser \in authUsers'
           ELSE reg.newUser \notin authUsers' /\ reg.newUser \notin Orphans' ]_vars

\* a profile creation failed and the identity created for it was deleted
C13_Witness ==
    /\ reg = Idle
    /\ \E id \in profileFailed : id \notin authUsers /\ id \notin deleteRejected

\* a step that delivers a snapshot of users to the browser
MembersSnapshotStep == memLive /\ memDue /\ ~memDue' /\ memLive'

\* C21 as stated: after each snapshot is processed the mirror's records are
\* exactly the records delivered in that snapshot, in the snapshot's order.
C21_MirrorIsSnapshot ==
    [][ MembersSnapshotStep =>
           [i \in 1..Len(teamMembers') |-> teamMembers'[i].id] =
           [i \in 1..Cardinality(serverUsers) |-> OrderedBy(serverUsers)[i].id] ]_vars

\* C21 amended: after each snapshot is processed the work-item mirror holds
\* exactly the delivered records, in the snapshot's order, each under its
\* document id; the member mirror holds, in the snapshot's order, exactly
\* the delivered records whose active field is not false. No record is
\* carried over from the previous mirror.
C21_MirrorIsSnapshotOfActive ==
    [][ /\ MembersSnapshotStep =>
             /\ {m.id : m \in SeqToSet(teamMembers')} =
                   {d.id : d \in {e \in serverUsers : e.active}}
             /\ \A i, j \in 1..Len(teamMembers') :
                   i < j => teamMembers'[i].id < teamMembers'[j].id
        /\ SnapshotStep("u1") =>
             /\ Len(tasks'["u1"]) = Len(serverTasks)
             /\ \A i \in 1..Len(serverTasks) :
                   tasks'["u1"][i] =
                      [serverTasks[i].data EXCEPT !.id = serverTasks[i].docId] ]_vars

\* a snapshot has been processed that left out an inactive member, while an
\* active member is shown
C21_Witness ==
    /\ ~memDue /\ memLive /\ ~dataLoading
    /\ memStarted = MaxMemberOps
    /\ \E d \in serverUsers : ~d.active /\ [id |-> d.id] \notin SeqToSet(teamMembers)
    /\ \E d \in serverUsers : d.active /\ [id |-> d.id] \in SeqToSet(teamMembers)

\* C23: when the snapshot stream of a mirror reports an error, the mirror
\* becomes empty (and an error flag is kept for the consumers): after the
\* step in which the error callback runs, teamMembers is the empty list.
C23_ErrorEmptiesMirror ==
    [][ (~memFailed /\ memFailed') => teamMembers' = <<>> ]_vars

\* C22: scalar fields are server-is-truth: once every handler has returned
\* and every snapshot has been delivered, each mirror record has the status
\* and the progress of the server's document.
C22_ScalarsAreServerTruth ==
    Quiet =>
        \A u \in Users : \A i \in 1..Len(tasks[u]) :
            /\ i <= Len(serverTasks)
            /\ tasks[u][i].status = serverTasks[i].data.status
            /\ tasks[u][i].progress = serverTasks[i].data.progress

\* C24: the automatic connection reset (disable then enable network) is
\* attempted at most once per process lifetime, however many document
\* functions fail and whatever the outcome of the first attempt.
C24_ResetAtMostOnce ==
    resets <= 1

\* C25: not-found is data for reads and an error for writes: when the
\* remote call itself did not fail, getDocument of a missing id returns
\* null, and updateDocument and deleteDocument of a missing id throw.
C25_NotFoundReadVsWrite ==
    (result # NoResult /\ result.missing /\ ~result.rejected) =>
        /\ result.kind = "getDocument" => result.outcome = "null"
        /\ result.kind \in {"updateDocument", "deleteDocument"} =>
              result.outcome = "error"

\* C26: a relay deletes an authentication account only when the adminId
\* of the request resolves to a profile whose authorization tier
\* (userRole) is admin; this holds for the HTTP endpoint and for the
\* cloud function.
C26_OnlyAdminTierDeletes ==
    [][accounts' # accounts =>
          /\ response'.adminId \in RelayIds
          /\ userDocs[response'.adminId].userRole = "admin"]_vars

\* C27: a relay answers 400 when userId or adminId is missing, otherwise
\* 500 on an unexpected failure, otherwise 403 when the caller is not
\* admin, and 200 on success.
C27_StatusCodes ==
    [][relayStarted' # relayStarted /\ response' # response =>
          response'.status =
             IF Undefined \in {response'.userId, response'.adminId} THEN 400
             ELSE IF response'.threw THEN 500
             ELSE IF ~(userDocs[response'.adminId].userRole = "admin") THEN 403
             ELSE 200]_vars

\* C30: no notification and no notification email is created for the
\* actor who caused the event, whether the actor is the assignee, an
\* admin, a manager, or mentions themselves.
C30_ActorNotNotified ==
    \A n \in created : n.userId # n.by

\* C30 witness: an admin who is among the recipients mentions themselves
\* and another member, and a notification of that event is created.
C30_Witness ==
    /\ lastNotify.type = "TASK_MENTION"
    /\ lastNotify.actor = 1
    /\ lastNotify.actor \in lastNotify.recipients
    /\ lastNotify.actor \in lastNotify.mentioned
    /\ \E n \in created : n.by = lastNotify.actor /\ n.channel = "notifications"

\* C29 as stated: a call of ensureAuthenticated that rejects does so after
\* the fixed wait, that is when its 5 s timer has fired.
C29_RejectsAfterFixedWait ==
    \A c \in Waiters : waits[c].promise = "rejected" => waits[c].timer = "fired"

\* C29 amended: ensureAuthenticated never hangs and settles exactly once:
\* a call is settled when its timer has fired at the latest, it is
\* resolved only by an identity (auth.currentUser or a callback with a
\* user) and rejected only by a callback without user or by the timer, a
\* settled call never changes, and a settled call has no listener left.
C29_SettlesOnceByTimeout ==
    [][\A c \in Waiters :
          /\ waits'[c].timer = "fired" => waits'[c].promise \in {"resolved", "rejected"}
          /\ waits'[c].promise = "resolved" => waits'[c].by \in {"currentUser", "callback"}
          /\ waits'[c].promise = "rejected" => waits'[c].by \in {"callback", "timer"}
          /\ waits[c].promise \in {"resolved", "rejected"} =>
                /\ waits'[c].promise = waits[c].promise
                /\ waits'[c].by = waits[c].by
          /\ waits'[c].promise \in {"resolved", "rejected"} => ~waits'[c].listening]_vars

\* C29 witness: one call was rejected by its first callback while its
\* timer was still running, another was resolved by a callback and its
\* timer fired afterwards.
C29_Witness ==
    /\ waits[1].promise = "rejected" /\ waits[1].by = "callback"
    /\ waits[1].timer = "armed"
    /\ waits[2].promise = "resolved" /\ waits[2].by = "callback"
    /\ waits[2].timer = "fired"

\* C28: when refreshConnection has returned true, the handle was
\* recreated and every active subscription (work items, members) runs
\* against the new handle.
C28_SubscriptionsOnNewHandle ==
    [][refreshed' = "true" /\ refreshed # "true" =>
          /\ dbHandle' > 0
          /\ \A k \in Kinds : subs'[k].live => subs'[k].handle = dbHandle']_vars

\* C31: the members mirror contains only active records: a snapshot never
\* puts a record whose active field is false into the mirror, and the
\* records that snapshots, addTeamMember and updateTeamMember leave in the
\* mirror carry no active field that is false.
C31_OnlyActiveMembers ==
    [][ /\ MembersSnapshotStep =>
             \A m \in SeqToSet(teamMembers') :
                \A d \in serverUsers : d.id = m.id => d.active
        /\ \A m \in SeqToSet(teamMembers') : m \in [id : MemberIds] ]_vars

\* C31 witness: a snapshot that carried an inactive member has been
\* processed and left it out, and a member was then added locally.
C31_Witness ==
    /\ ~memDue /\ memLive
    /\ \E d \in serverUsers : ~d.active /\ [id |-> d.id] \notin SeqToSet(teamMembers)
    /\ \E m \in SeqToSet(teamMembers) : \A d \in serverUsers : d.id # m.id

\* C32: when getUserProfile answers that the current identity has no
\* profile record, the session store exposes the default profile built
\* from that identity (uid, email, displayName) and no profile error.
C32_DefaultProfileWhenNoRecord ==
    [][ \A c \in Callers :
          (run[c] # Idle /\ run'[c] = Idle /\ answered'.outcome = "none"
              /\ answered'.uid = currentUser)
          => /\ userData' = BasicData(currentUser)
             /\ profileError' = "null" ]_vars

\* the text has an @ followed by the member's name, and the name ends
\* there: the text ends or goes on with a blank or another character
\* that is not a letter
MentionsByName(t, m) ==
    \E i \in 1..Len(t) :
       /\ t[i] = "@"
       /\ i + Len(m.name) <= Len(t)
       /\ SubSeq(t, i + 1, i + Len(m.name)) = m.name
       /\ i + Len(m.name) = Len(t) \/ t[i + Len(m.name) + 1] \in {" ", "."}

\* C33: when a comment's text contains @ followed by the name of a known
\* member, the mentions list of the stored comment contains that
\* member's id.
C33_MentionStored ==
    [][ newComment # <<>> /\ newComment' = <<>> =>
           \A m \in Named : MentionsByName(newComment, m) => m.id \in storedMentions' ]_vars

\* the ids of the comments the mirror of u shows on the task
ShownCommentIds(list) ==
    IF HasTask(list, DocId)
    THEN {c.id : c \in SeqToSet(FindTask(list, DocId).comments)}
    ELSE {}

\* C34: after a comment is deleted from a task that has other comments,
\* the mirror does not show the deleted comment: neither right after the
\* local removal, nor after the snapshot that follows the deletion on the
\* server.
C34_DeletedCommentGone ==
    [][ \A u \in Users :
          /\ (op[u] = Idle /\ op'[u] # Idle /\ op'[u].kind = "handleDeleteComment"
                /\ Cardinality(ShownCommentIds(tasks[u])) >= 2)
             => op'[u].commentId \notin ShownCommentIds(tasks'[u])
          /\ (SnapshotStep(u) /\ DocExists(DocId))
             => \A id \in removed :
                   id \notin {c.id : c \in SeqToSet(DocData(DocId).comments)}
                      => id \notin ShownCommentIds(tasks'[u]) ]_vars

\* the stored data of document id in a list of stored documents
StoredData(stored_docs, id) ==
    stored_docs[CHOOSE i \in 1..Len(stored_docs) : stored_docs[i].docId = id].data

\* C35: the write of an approval or of a rejection changes the stored status
\* of a work item only when it is the write of an approval, the status was
\* Todo, the new status is In Progress and the approving entries on the item
\* are at least as many as the team members; a rejection, a partial set of
\* approvals, or an approval of an item that is not in Todo leaves the status
\* as it was.
C35_ApprovalMovesOnlyTodoWhenAllApproved ==
    [][ \A u \in Users :
          ( /\ op[u] # Idle
            /\ op[u].kind \in {"approve", "reject"}
            /\ op[u].pc = "updateDoc"
            /\ op'[u] # Idle
            /\ op'[u].pc = "onTaskUpdate"
            /\ StoredData(serverTasks', op[u].task.id).status
                 # StoredData(serverTasks, op[u].task.id).status )
          => /\ op[u].kind = "approve"
             /\ StoredData(serverTasks, op[u].task.id).status = "Todo"
             /\ StoredData(serverTasks', op[u].task.id).status = "In Progress"
             /\ allApproved(StoredData(serverTasks', op[u].task.id).approvals) ]_vars


\* useEffect(..., [tasks, currentUser, onTaskUpdate]): the effect runs after a
\* render in which the mirror changed, as often as the rendered mirror shows a
\* task whose progress differs from the value of its status; mirror updates
\* that arrive before the next render are rendered together
TaskBoard_useEffect(u) ==
    /\ fx[u] = Idle
    /\ \E i \in 1..Len(tasks[u]) :
          /\ tasks[u][i].progress # ProgressOf(tasks[u][i].status)
          /\ fx' = [fx EXCEPT ![u] = [kind |-> "progress", pc |-> "updateDoc",
                                      task |-> tasks[u][i]]]
    /\ UNCHANGED <<nonTaskVars, serverTasks, tasks, pending, op, nextId, started, submitted, written, removed, decided, last>>

\* the repair pass of every client while approvals are given and statuses are
\* changed; every remote call succeeds
NextRepair ==
    \/ \E u \in Users : handleCreateTask(u)
    \/ \E u \in Users : onSnapshot(u)
    \/ \E u \in Users, s \in StatusSet : handleStatusChange_begin(u, s)
    \/ \E u \in Users : handleStatusChange_updateDoc(u)
    \/ \E u \in Users : handleStatusChange_onTaskUpdate(u)
    \/ \E u \in Users : handleApprove_begin(u)
    \/ \E u \in Users : handleApproval_getDoc(u)
    \/ \E u \in Users : handleApprove_updateDoc(u)
    \/ \E u \in Users : handleApprove_onTaskUpdate(u)
    \/ \E u \in Users : TaskBoard_useEffect(u)
    \/ \E u \in Users : updateTasksProgress_updateDoc(u)
    \/ \E u \in Users : updateTasksProgress_onTaskUpdate(u)

SpecRepair == Init /\ [][NextRepair]_vars

\* no handler and no repair pass is in flight, no snapshot is due, and no
\* mirror shows a work item whose progress differs from the value of its
\* status: no repair pass runs and none will start
NoRepairToCome ==
    /\ \A u \in Users : op[u] = Idle /\ fx[u] = Idle /\ ~pending[u]
    /\ \A u \in Users : \A i \in 1..Len(tasks[u]) :
          tasks[u][i].progress = ProgressOf(tasks[u][i].status)

\* C36: the progress-repair pass converges: when the clients have finished
\* their handlers and their repair passes, all snapshots are delivered and no
\* further repair write will be issued, every stored work item has the
\* progress of its status, also when several clients repaired while statuses
\* were being changed.
C36_RepairConverges ==
    NoRepairToCome =>
        \A i \in 1..Len(serverTasks) :
            serverTasks[i].data.progress = ProgressOf(serverTasks[i].data.status)

\* C37: when a signed-in identity creates an account for someone else, the
\* caller's session is preserved: at the step in which registerUser ends, by
\* returning or by rethrowing, and somebody is signed in (nobody signed out
\* while it ran), the caller's identity still exists and is the current
\* identity again; the rollback has not deleted it.
C37_CallerSessionPreserved ==
    [][ ( /\ reg # Idle
          /\ reg' = Idle
          /\ reg.initialUser # NoIdentity
          /\ authCurrent # NoIdentity )
        => /\ reg.initialUser \in authUsers'
           /\ authCurrent' = reg.initialUser ]_vars


\* accounts deleted from the application while profiles are edited
NextAccount ==
    \/ \E id \in RelayIds, userRole \in UserRoles, role \in Positions :
          handleUpdateTeamMember(id, userRole, role)
    \/ \E caller \in RelayIds \cup {NoIdentity}, userId \in RelayIds :
          deleteUserAccount(caller, userId)
    \/ \E targetFailed, callerFailed \in BOOLEAN :
          deleteUserAccount_getUserProfile(targetFailed, callerFailed)
    \/ \E ok \in BOOLEAN : deleteUserAccount_commit(ok)
    \/ \E ok \in BOOLEAN : deleteUserAccount_identity(ok)

SpecAccount == Init /\ [][NextAccount]_vars

\* C39: deleteUserAccount deletes data or an identity only for a caller who
\* is signed in and is the target user or whose profile was read with the
\* admin tier; for any other caller, also one whose profile could not be
\* loaded, the step deletes nothing.
C39_OnlySelfOrAdminDeletes ==
    [][ (dataDeleted' # dataDeleted \/ accounts' # accounts)
        => /\ deletion # Idle
           /\ deletion.currentUser # NoIdentity
           /\ \/ deletion.currentUser = deletion.userId
              \/ deletion.callerRole = "admin"
           /\ dataDeleted' \subseteq dataDeleted \cup {deletion.userId}
           /\ accounts \ accounts' \subseteq {deletion.userId} ]_vars

\* an admin has deleted the data of another user and is about to ask for the
\* deletion of the identity
C39_Witness ==
    /\ deletion # Idle
    /\ deletion.pc = "identity"
    /\ deletion.currentUser # deletion.userId
    /\ deletion.userId \in dataDeleted


\* a task as a component hands it to addTask or updateTask
TaskOf(id, status) ==
    [id |-> id, status |-> status, progress |-> ProgressOf(status),
     approvals |-> <<>>, comments |-> <<>>, subtasks |-> <<>>]

\* a component calls addTask(task) of the context
AppData_addTask(u, task) ==
    /\ tasks' = [tasks EXCEPT ![u] = addTask(@, task)]
    /\ UNCHANGED <<nonTaskVars, serverTasks, pending, op, fx, nextId, started, submitted, written, removed, decided, last>>

\* a component calls updateTask(task) of the context
AppData_updateTask(u, task) ==
    /\ onTaskUpdate(u, task)
    /\ UNCHANGED <<nonTaskVars, serverTasks, pending, op, fx, nextId, started, submitted, written, removed, decided>>

\* the work-items mirror of one browser under snapshots, addTask and updateTask
NextTasksMirror ==
    \/ handleCreateTask("u1")
    \/ onSnapshot("u1")
    \/ \E id \in TaskIds, status \in StatusSet : AppData_addTask("u1", TaskOf(id, status))
    \/ \E id \in TaskIds, status \in StatusSet : AppData_updateTask("u1", TaskOf(id, status))

SpecTasksMirror == Init /\ [][NextTasksMirror]_vars

\* C38: the work-items mirror never holds two records with the same id, after
\* any sequence of snapshots, addTask and updateTask calls; on every mirror
\* reached, addTask of a task whose id is present and updateTask of a task
\* whose id is not present return the mirror unchanged.
C38_MirrorIdsUnique ==
    \A u \in Users :
       /\ \A i, j \in 1..Len(tasks[u]) : tasks[u][i].id = tasks[u][j].id => i = j
       /\ \A id \in TaskIds, status \in StatusSet :
             IF HasTask(tasks[u], id)
             THEN addTask(tasks[u], TaskOf(id, status)) = tasks[u]
             ELSE updateTask(tasks[u], TaskOf(id, status)) = tasks[u]

\* the mirror holds the task of the snapshot and one added locally, in states
\* where addTask is called with an id that is present and updateTask with one
\* that is not
C38_Witness ==
    /\ Len(tasks["u1"]) = 2
    /\ HasTask(tasks["u1"], DocId)
    /\ HasTask(tasks["u1"], FieldId)
    /\ ~HasTask(tasks["u1"], "d2")
    /\ FindTask(tasks["u1"], FieldId).status = "Completed"


\* subtask mutations of one task and the dialog that shows it
NextSubtaskObjects ==
    \/ TaskSubtasks_handleAddSubtask
    \/ \E i \in 1..MaxCloneOps : TaskSubtasks_handleToggleSubtask(i)
    \/ \E i \in 1..MaxCloneOps : TaskSubtasks_handleDeleteSubtask(i)
    \/ \E ok \in BOOLEAN : TaskSubtasks_updateTaskInFirestore(ok)
    \/ TaskDetailDialog_useEffect

SpecSubtaskObjects == Init /\ [][NextSubtaskObjects]_vars

\* the completed fields of the objects of a list
FieldsOf(list) == [k \in 1..Len(list) |-> heap[list[k]]]

====
